---- MODULE Spec2Model ----
(***************************************************************************)
(* Verification model of the Corrosion language implementation:           *)
(* tokenizer -> parser -> type checker -> tree-walking interpreter, plus   *)
(* the REPL driver that chains them.                                       *)
(*                                                                         *)
(* Data representation                                                     *)
(*   runtime values  : records tagged by k  (Int, Bool, Unit, List, ...)   *)
(*   expressions     : records tagged by t  (the Expression variants)      *)
(*   statements      : records tagged by s  (the Statement variants)       *)
(*   types           : records tagged by ty (the Type variants)            *)
(*   environments    : a sequence of scopes, innermost last; a scope is a  *)
(*                     function from the names it binds to their values    *)
(***************************************************************************)
EXTENDS Integers, Sequences, FiniteSets, TLC

VARIABLES
    mode,       \* which driver owns the state: "env", "interp", "checker", "repl",
                \* "fix", "typed", "rules", "import", "parse"
    interp,     \* Interpreter.environment (runtime scope stack)
    out,        \* values written to stdout by print, in order
    last,       \* outcome of the most recent operation
    steps,      \* number of operations performed so far
    ghost,      \* history recorded for the properties (not program state)
    checker,    \* TypeChecker { environment, errors, modules }
    repl        \* REPL driver: stage of the pipeline and its intermediate data

vars == <<mode, interp, out, last, steps, ghost, checker, repl>>

----------------------------------------------------------------------------
(* Bounds of the model                                                     *)

MaxOps == 5          \* operations performed on one runtime environment
MaxScopes == 3       \* scopes pushed on one runtime environment
MaxClosureOps == 2   \* environment calls made by a closure given to with_new_scope
MaxSteps == 4        \* statements interpreted by one interpreter
MaxCallDepth == 14   \* nested function applications before evaluation is cut off
ImportFrames == 4    \* share of that depth one nested module load takes
IntBits == 8         \* width of Int: i64 scaled down to IntBits bits
MaxN == 5            \* largest argument given to the recursive functions

----------------------------------------------------------------------------
(* Runtime values (interpreter/value.rs)                                   *)

IntV(i) == [k |-> "Int", n |-> i]
BoolV(x) == [k |-> "Bool", b |-> x]
UnitV == [k |-> "Unit"]
ListV(elems) == [k |-> "List", xs |-> elems]
PairV(a, c) == [k |-> "Pair", first |-> a, second |-> c]
FunctionV(p, bd, e) == [k |-> "Function", param |-> p, body |-> bd, env |-> e]
LeftInjectV(v) == [k |-> "LeftInject", inner |-> v]
RightInjectV(v) == [k |-> "RightInject", inner |-> v]
FixedPointV(f) == [k |-> "FixedPoint", function |-> f]
ModuleV(nm, ex) == [k |-> "Module", name |-> nm, exports |-> ex]

\* InterpreterError variants (interpreter/mod.rs); carried as a value tagged "Err"
RuntimeError(m) == [k |-> "Err", e |-> "RuntimeError", msg |-> m]
DivisionByZero == [k |-> "Err", e |-> "DivisionByZero"]
UndefinedVariableErr(nm) == [k |-> "Err", e |-> "UndefinedVariable", name |-> nm]
RtTypeError(exp) == [k |-> "Err", e |-> "TypeError", expected |-> exp]
NotCallable == [k |-> "Err", e |-> "NotCallable"]
\* unbounded recursion exhausts the host stack; the model cuts evaluation off
StackExhausted == [k |-> "Err", e |-> "StackExhausted"]
\* a panic of the host (it unwinds through every caller like an Err, and no
\* caller catches it)
Panic(m) == [k |-> "Err", e |-> "Panic", msg |-> m]

IsErr(v) == v.k = "Err"

\* Option<Value>
None == [some |-> FALSE]
Some(v) == [some |-> TRUE, v |-> v]

----------------------------------------------------------------------------
(* Runtime environment (interpreter/environment.rs)                        *)

EmptyScope == [nm \in {} |-> UnitV]

\* HashMap::insert
ScopeInsert(scope, name, value) ==
    [nm \in (DOMAIN scope) \cup {name} |-> IF nm = name THEN value ELSE scope[nm]]

EnvNew == <<EmptyScope>>

push_scope(env) == Append(env, EmptyScope)

pop_scope_keep(env) == env

pop_scope(env) ==
    IF Len(env) > 1 THEN SubSeq(env, 1, Len(env) - 1) ELSE env

bind_outer(env, name, value) ==
    [env EXCEPT ![1] = ScopeInsert(@, name, value)]

bind(env, name, value) ==
    IF Len(env) > 0
        THEN [env EXCEPT ![Len(env)] = ScopeInsert(@, name, value)]
        ELSE env

RECURSIVE lookup_front(_, _, _)
lookup_front(env, i, name) ==
    IF i > Len(env) THEN None
    ELSE IF name \in DOMAIN env[i] THEN Some(env[i][name])
    ELSE lookup_front(env, i + 1, name)

\* scopes.iter().rev(): i runs from the innermost scope outward
RECURSIVE lookup_rev(_, _, _)
lookup_rev(env, i, name) ==
    IF i = 0 THEN None
    ELSE IF name \in DOMAIN env[i] THEN Some(env[i][name])
    ELSE lookup_rev(env, i - 1, name)

lookup_outer_first(env, name) == lookup_front(env, 1, name)

lookup(env, name) == lookup_rev(env, Len(env), name)

\* The closure given to with_new_scope receives the environment itself
\* (&mut Environment) and may call its whole public API; a closure is the
\* sequence of calls it makes.
RECURSIVE run_closure(_, _, _)
run_closure(env, f, i) ==
    IF i > Len(f) THEN env
    ELSE run_closure(CASE f[i].op = "push_scope" -> push_scope(env)
                       [] f[i].op = "pop_scope" -> pop_scope(env)
                       [] f[i].op = "bind" -> bind(env, f[i].name, f[i].value),
                     f, i + 1)

with_new_scope_no_pop(env, f) == run_closure(push_scope(env), f, 1)

with_new_scope(env, f) == pop_scope(run_closure(push_scope(env), f, 1))

is_bound_locally(env, name) ==
    IF Len(env) > 0 THEN name \in DOMAIN env[Len(env)] ELSE FALSE

\* later scopes override earlier ones
RECURSIVE get_all_bindings_upto(_, _)
get_all_bindings_upto(env, i) ==
    IF i = 0 THEN EmptyScope
    ELSE LET below == get_all_bindings_upto(env, i - 1)
         IN  [nm \in (DOMAIN below) \cup (DOMAIN env[i]) |->
                 IF nm \in DOMAIN env[i] THEN env[i][nm] ELSE below[nm]]

get_all_bindings(env) == get_all_bindings_upto(env, Len(env))

scope_count(env) == Len(env)

----------------------------------------------------------------------------
(* AST (ast/nodes.rs). Spans are not modelled.                             *)

NoExpr == [t |-> "None"]          \* Option<Box<Expression>>::None
NoType == [te |-> "None"]         \* Option<TypeExpression>::None

Number(i) == [t |-> "Number", value |-> i]
Boolean(x) == [t |-> "Boolean", bvalue |-> x]
Identifier(nm) == [t |-> "Identifier", name |-> nm]
BinaryOp(l, op, r) == [t |-> "BinaryOp", left |-> l, operator |-> op, right |-> r]
Function(p, pt, bd) == [t |-> "Function", param |-> p, param_type |-> pt, body |-> bd]
FunctionCall(f, a) == [t |-> "FunctionCall", function |-> f, argument |-> a]
List(es) == [t |-> "List", elements |-> es]
Pair(a, c) == [t |-> "Pair", first |-> a, second |-> c]
LeftInject(e) == [t |-> "LeftInject", operand |-> e]
RightInject(e) == [t |-> "RightInject", operand |-> e]
Fix(f) == [t |-> "Fix", function |-> f]
Block(ss, e) == [t |-> "Block", statements |-> ss, expression |-> e]
PrintE(e) == [t |-> "Print", operand |-> e]
If(c, th, el) == [t |-> "If", condition |-> c, then_branch |-> th, else_branch |-> el]
For(v, it, bd) == [t |-> "For", variable |-> v, iterable |-> it, body |-> bd]
Range(a, c) == [t |-> "Range", start |-> a, end |-> c]
FirstProjection(p) == [t |-> "FirstProjection", pair |-> p]
SecondProjection(p) == [t |-> "SecondProjection", pair |-> p]
Cons(h, tl) == [t |-> "Cons", head |-> h, tail |-> tl]
HeadProjection(l) == [t |-> "HeadProjection", list |-> l]
TailProjection(l) == [t |-> "TailProjection", list |-> l]
Case(e, lp, lb, rp, rb) ==
    [t |-> "Case", expression |-> e, left_pattern |-> lp, left_body |-> lb,
     right_pattern |-> rp, right_body |-> rb]

VariableDeclaration(nm, ta, e) ==
    [s |-> "VariableDeclaration", name |-> nm, type_annotation |-> ta, value |-> e]
FunctionDeclaration(nm, p, pt, rt, bd) ==
    [s |-> "FunctionDeclaration", name |-> nm, param |-> p, param_type |-> pt,
     return_type |-> rt, body |-> bd]
\* alias is an Option<String>
Import(p, al) == [s |-> "Import", path |-> p, alias |-> al]
ExpressionStmt(e) == [s |-> "Expression", expression |-> e]

\* TypeExpression
TInt == [te |-> "Int"]
TBool == [te |-> "Bool"]
TString == [te |-> "String"]
TList(e) == [te |-> "List", element |-> e]
TFunction(p, r) == [te |-> "Function", param |-> p, result |-> r]
TPair(a, c) == [te |-> "Pair", first |-> a, second |-> c]
TRecursive(i) == [te |-> "Recursive", inner |-> i]
TNamed(nm) == [te |-> "Named", name |-> nm]

----------------------------------------------------------------------------
(* Source files on disk.  A file is given by what the front end makes of   *)
(* its content: `unlexable` when Tokenizer::tokenize fails on it,          *)
(* `unparsable` when Parser::parse fails on its tokens, and otherwise the  *)
(* program parsed from it.  A path outside DOMAIN FileSystem cannot be     *)
(* read.  All files lie in one directory, so current_directory.join(path)  *)
(* names the file `path` for every importer.                               *)

Unlexable == [kind |-> "unlexable"]
Unparsable == [kind |-> "unparsable"]
SourceFile(program) == [kind |-> "program", program |-> program]

FileSystem ==
    \* let a = 1; let b = a + 1;
    "lib.cor" :> SourceFile(<<
        VariableDeclaration("a", NoType, Number(1)),
        VariableDeclaration("b", NoType, BinaryOp(Identifier("a"), "Add", Number(1)))>>)
    \* print(7); let n = 7;
    @@ "noisy.cor" :> SourceFile(<<
        ExpressionStmt(PrintE(Number(7))),
        VariableDeclaration("n", NoType, Number(7))>>)
    \* let x = true;
    @@ "shadow.cor" :> SourceFile(<<VariableDeclaration("x", NoType, Boolean(TRUE))>>)
    \* let y = x;
    @@ "peek.cor" :> SourceFile(<<VariableDeclaration("y", NoType, Identifier("x"))>>)
    \* let a = { let t = 5; t };
    @@ "scoped.cor" :> SourceFile(<<
        VariableDeclaration("a", NoType,
            Block(<<VariableDeclaration("t", NoType, Number(5))>>, Identifier("t")))>>)
    \* let a = 1; print(9); let z = 1 / 0;
    @@ "crash.cor" :> SourceFile(<<
        VariableDeclaration("a", NoType, Number(1)),
        ExpressionStmt(PrintE(Number(9))),
        VariableDeclaration("z", NoType, BinaryOp(Number(1), "Divide", Number(0)))>>)
    \* import "lib.cor" as inner; let c = 3;
    @@ "outer.cor" :> SourceFile(<<
        Import("lib.cor", Some("inner")),
        VariableDeclaration("c", NoType, Number(3))>>)
    \* import "self.cor" as me;
    @@ "self.cor" :> SourceFile(<<Import("self.cor", Some("me"))>>)
    \* import "pong.cor" as pong;
    @@ "ping.cor" :> SourceFile(<<Import("pong.cor", Some("pong"))>>)
    \* import "ping.cor" as ping;
    @@ "pong.cor" :> SourceFile(<<Import("ping.cor", Some("ping"))>>)
    @@ "garbled.cor" :> Unlexable
    @@ "broken.cor" :> Unparsable

\* fs::read_to_string
read_to_string(path) ==
    IF path \in DOMAIN FileSystem THEN Some(FileSystem[path]) ELSE None

----------------------------------------------------------------------------
(* Interpreter (interpreter/interpreter.rs)                                *)
(*                                                                         *)
(* Every operator takes the interpreter's environment env, the output      *)
(* written so far o and the remaining call depth d, and returns            *)
(* [v, env, out]: the value or error, the interpreter's environment after  *)
(* the evaluation (methods take &mut self) and the output.                 *)

Ret(v, env, o) == [v |-> v, env |-> env, out |-> o]

\* i64::MIN and i64::MAX at the model's width
IntMin == -(2 ^ (IntBits - 1))
IntMax == 2 ^ (IntBits - 1) - 1

Abs(i) == IF i < 0 THEN -i ELSE i

\* host integer division: truncates toward zero
TruncDiv(l, r) ==
    IF (l >= 0) = (r > 0) THEN Abs(l) \div Abs(r) ELSE -(Abs(l) \div Abs(r))

is_truthy(v) ==
    CASE v.k = "Bool" -> v.b
      [] v.k = "Unit" -> FALSE
      [] v.k = "Int" -> v.n # 0
      [] v.k = "List" -> Len(v.xs) > 0
      [] OTHER -> TRUE

\* the (Int, Int) arm of Divide: the zero test, then the host's `l / r`,
\* which panics when the quotient i64::MIN / -1 does not fit
int_divide(l, r) ==
    IF r = 0 THEN DivisionByZero
    ELSE IF l = IntMin /\ r = -1 THEN Panic("attempt to divide with overflow")
    ELSE IntV(TruncDiv(l, r))

\* Expression::Range on two Ints: `for i in s..e { range_list.push(Int(i)) }`
range_list_inclusive(s, e) ==
    IF s > e THEN <<>> ELSE [i \in 1..(e - s + 1) |-> IntV(s + i - 1)]

range_list(s, e) ==
    IF s >= e THEN <<>> ELSE [i \in 1..(e - s) |-> IntV(s + i - 1)]

\* Expression::Cons on a list: `list.insert(0, head_val)`
list_push_back(head_val, list) == Append(list, head_val)

list_insert_front(head_val, list) == <<head_val>> \o list

\* Expression::HeadProjection / TailProjection on a list
head_of_unchecked(list) ==
    IF Len(list) = 0 THEN UnitV ELSE list[1]

head_of(list) ==
    IF Len(list) = 0 THEN RuntimeError("Cannot get head of empty list")
    ELSE list[1]

tail_of(list) ==
    IF Len(list) = 0 THEN RuntimeError("Cannot get tail of empty list")
    ELSE ListV(SubSeq(list, 2, Len(list)))

\* the match on the two operand values in interpret_binary_op
binary_op_values(operator, l, r) ==
    LET ints == l.k = "Int" /\ r.k = "Int" IN
    CASE operator = "Add" -> IF ints THEN IntV(l.n + r.n) ELSE RtTypeError("Int + Int or String + String")
      [] operator = "Subtract" -> IF ints THEN IntV(l.n - r.n) ELSE RtTypeError("Int - Int")
      [] operator = "Multiply" -> IF ints THEN IntV(l.n * r.n) ELSE RtTypeError("Int * Int")
      [] operator = "Divide" ->
            IF ints THEN int_divide(l.n, r.n) ELSE RtTypeError("Int / Int")
      [] operator = "Equal" -> BoolV(l = r)
      [] operator = "NotEqual" -> BoolV(l # r)
      [] operator = "LessThan" -> IF ints THEN BoolV(l.n < r.n) ELSE RtTypeError("Int < Int")
      [] operator = "LessThanEqual" -> IF ints THEN BoolV(l.n <= r.n) ELSE RtTypeError("Int <= Int")
      [] operator = "GreaterThan" -> IF ints THEN BoolV(l.n > r.n) ELSE RtTypeError("Int > Int")
      [] operator = "GreaterThanEqual" -> IF ints THEN BoolV(l.n >= r.n) ELSE RtTypeError("Int >= Int")
      [] operator = "LogicalAnd" -> BoolV(is_truthy(l) /\ is_truthy(r))
      [] operator = "LogicalOr" -> BoolV(is_truthy(l) \/ is_truthy(r))
      [] OTHER -> RuntimeError("Assignment operator not supported in expressions")

\* the value the self parameter of a fixed point is bound to at a call
self_plain(function) == function

self_binding(function) == FixedPointV(function)

\* the environment a closure body runs in: the captured one, never the caller's
closure_env_dynamic(captured, caller) == caller

closure_env(captured, caller) == captured

RECURSIVE interpret_expression(_, _, _, _)
RECURSIVE interpret_statement(_, _, _, _)
RECURSIVE interpret_statements(_, _, _, _, _)
RECURSIVE interpret_elements(_, _, _, _, _, _)
RECURSIVE interpret_for_body(_, _, _, _, _, _, _)
RECURSIVE interpret_function_call(_, _, _, _, _)
RECURSIVE interpret_binary_op(_, _, _, _, _, _)
RECURSIVE load_module(_, _, _, _, _)

interpret_statements_keep_going(statements, i, env, o, d) ==
    IF i > Len(statements) THEN Ret(UnitV, env, o)
    ELSE LET r == interpret_statement(statements[i], env, o, d)
         IN  interpret_statements(statements, i + 1, r.env, r.out, d)

\* the `for statement in statements { interpret_statement(statement)?; }` loop
interpret_statements(statements, i, env, o, d) ==
    IF i > Len(statements) THEN Ret(UnitV, env, o)
    ELSE LET r == interpret_statement(statements[i], env, o, d)
         IN  IF IsErr(r.v) THEN r
             ELSE interpret_statements(statements, i + 1, r.env, r.out, d)

interpret_program(program, env, o, d) ==
    interpret_statements(program, 1, env, o, d)

interpret_statement(statement, env, o, d) ==
    CASE statement.s = "VariableDeclaration" ->
            LET r == interpret_expression(statement.value, env, o, d)
            IN  IF IsErr(r.v) THEN r
                ELSE Ret(UnitV, bind(r.env, statement.name, r.v), r.out)
      [] statement.s = "FunctionDeclaration" ->
            LET recursive_function ==
                    FunctionV(statement.name,
                              Function(statement.param, NoType, statement.body),
                              env)
                function_val == FixedPointV(recursive_function)
            IN  Ret(UnitV, bind(env, statement.name, function_val), o)
      [] statement.s = "Import" ->
            LET import_name == IF statement.alias.some THEN statement.alias.v
                               ELSE statement.path
                module_val == load_module(env, statement.path, import_name, o, d)
            IN  IF IsErr(module_val.v) THEN Ret(module_val.v, env, module_val.out)
                ELSE Ret(UnitV, bind(env, import_name, module_val.v), module_val.out)
      [] statement.s = "Expression" ->
            interpret_expression(statement.expression, env, o, d)

\* the environment of the interpreter that runs an imported file
module_interpreter_inherits(env) == env

\* `let mut module_interpreter = Interpreter::new();`
module_interpreter(env) == EnvNew

\* the errors no caller receives as an Err: the host has stopped
IsCrash(v) == IsErr(v) /\ v.e \in {"Panic", "StackExhausted"}

\* a loader that runs the file only if the importer holds no module of that
\* name yet
load_module_once(env, path, module_name, o, d) ==
    LET held == lookup(env, module_name)
        content == read_to_string(path)
    IN
    IF held.some /\ held.v.k = "Module" THEN Ret(held.v, env, o)
    ELSE IF ~content.some THEN Ret(RuntimeError("Failed to read module file"), env, o)
    ELSE IF content.v.kind = "unlexable"
        THEN Ret(RuntimeError("Failed to tokenize module"), env, o)
    ELSE IF content.v.kind = "unparsable"
        THEN Ret(RuntimeError("Failed to parse module"), env, o)
    ELSE IF d < ImportFrames THEN Ret(StackExhausted, env, o)
    ELSE LET ran == interpret_program(content.v.program, module_interpreter(env), o,
                                      d - ImportFrames)
         IN  IF IsCrash(ran.v) THEN Ret(ran.v, env, ran.out)
             ELSE IF IsErr(ran.v)
                 THEN Ret(RuntimeError("Failed to execute module"), env, ran.out)
             ELSE Ret(ModuleV(module_name, get_all_bindings(ran.env)), env, ran.out)

\* load_module on the interpreter whose environment is env; returns the
\* Module value or the error in v, env as it was, and the output with what
\* the imported file printed
load_module(env, path, module_name, o, d) ==
    LET content == read_to_string(path) IN
    IF ~content.some THEN Ret(RuntimeError("Failed to read module file"), env, o)
    ELSE IF content.v.kind = "unlexable"
        THEN Ret(RuntimeError("Failed to tokenize module"), env, o)
    ELSE IF content.v.kind = "unparsable"
        THEN Ret(RuntimeError("Failed to parse module"), env, o)
    ELSE IF d < ImportFrames THEN Ret(StackExhausted, env, o)
    ELSE LET ran == interpret_program(content.v.program, module_interpreter(env), o,
                                      d - ImportFrames)
         IN  IF IsCrash(ran.v) THEN Ret(ran.v, env, ran.out)
             ELSE IF IsErr(ran.v)
                 THEN Ret(RuntimeError("Failed to execute module"), env, ran.out)
             ELSE Ret(ModuleV(module_name, get_all_bindings(ran.env)), env, ran.out)

\* Expression::List: elements evaluated left to right, first error returned
interpret_elements(elements, i, acc, env, o, d) ==
    IF i > Len(elements) THEN Ret(ListV(acc), env, o)
    ELSE LET r == interpret_expression(elements[i], env, o, d)
         IN  IF IsErr(r.v) THEN r
             ELSE interpret_elements(elements, i + 1, Append(acc, r.v), r.env, r.out, d)

interpret_for_body_keep_going(variable, body, elements, i, fenv, o, d) ==
    IF i > Len(elements) THEN Ret(UnitV, fenv, o)
    ELSE LET r == interpret_expression(body, bind(fenv, variable, elements[i]), o, d)
         IN  interpret_for_body(variable, body, elements, i + 1, r.env, r.out, d)

\* the loop inside Expression::For, run by for_interpreter on its own
\* environment fenv; returns that interpreter's final [v, env, out]
interpret_for_body(variable, body, elements, i, fenv, o, d) ==
    IF i > Len(elements) THEN Ret(UnitV, fenv, o)
    ELSE LET bound == bind(fenv, variable, elements[i])
             r == interpret_expression(body, bound, o, d)
         IN  IF IsErr(r.v) THEN r
             ELSE interpret_for_body(variable, body, elements, i + 1, r.env, r.out, d)

\* an evaluation of && and || that skips the right operand when the left
\* one decides
interpret_binary_op_short_circuit(left, operator, right, env, o, d) ==
    LET l == interpret_expression(left, env, o, d) IN
    IF IsErr(l.v) THEN l
    ELSE IF operator = "LogicalAnd" /\ ~is_truthy(l.v) THEN Ret(BoolV(FALSE), l.env, l.out)
    ELSE IF operator = "LogicalOr" /\ is_truthy(l.v) THEN Ret(BoolV(TRUE), l.env, l.out)
    ELSE LET r == interpret_expression(right, l.env, l.out, d) IN
         IF IsErr(r.v) THEN r
         ELSE Ret(binary_op_values(operator, l.v, r.v), r.env, r.out)

interpret_binary_op(left, operator, right, env, o, d) ==
    LET l == interpret_expression(left, env, o, d) IN
    IF IsErr(l.v) THEN l
    ELSE LET r == interpret_expression(right, l.env, l.out, d) IN
         IF IsErr(r.v) THEN r
         ELSE Ret(binary_op_values(operator, l.v, r.v), r.env, r.out)

interpret_function_call(function, argument, env, o, d) ==
    LET f == interpret_expression(function, env, o, d) IN
    IF IsErr(f.v) THEN f
    ELSE LET a == interpret_expression(argument, f.env, f.out, d) IN
    IF IsErr(a.v) THEN a
    ELSE IF d = 0 THEN Ret(StackExhausted, a.env, a.out)
    ELSE CASE f.v.k = "Function" ->
            LET call_env == bind(push_scope(closure_env(f.v.env, a.env)), f.v.param, a.v)
                result == interpret_expression(f.v.body, call_env, a.out, d - 1)
            IN  Ret(result.v, a.env, result.out)
      [] f.v.k = "FixedPoint" ->
            IF f.v.function.k = "Function" THEN
                LET fn == f.v.function
                    call_env == bind(push_scope(fn.env), fn.param, self_binding(fn))
                    inner_func == interpret_expression(fn.body, call_env, a.out, d - 1)
                IN  IF IsErr(inner_func.v) THEN Ret(inner_func.v, a.env, inner_func.out)
                    ELSE IF inner_func.v.k = "Function" THEN
                        LET final_env == bind(push_scope(inner_func.v.env),
                                              inner_func.v.param, a.v)
                            result == interpret_expression(inner_func.v.body, final_env,
                                                           inner_func.out, d - 1)
                        IN  Ret(result.v, a.env, result.out)
                    ELSE Ret(RuntimeError("Fixed point function body must return a function"),
                             a.env, inner_func.out)
            ELSE Ret(RuntimeError("Invalid fixed point function"), a.env, a.out)
      [] OTHER -> Ret(NotCallable, a.env, a.out)

interpret_expression(expr, env, o, d) ==
    CASE expr.t = "Number" -> Ret(IntV(expr.value), env, o)
      [] expr.t = "Boolean" -> Ret(BoolV(expr.bvalue), env, o)
      [] expr.t = "Identifier" ->
            LET found == lookup(env, expr.name)
            IN  IF found.some THEN Ret(found.v, env, o)
                ELSE Ret(UndefinedVariableErr(expr.name), env, o)
      [] expr.t = "List" -> interpret_elements(expr.elements, 1, <<>>, env, o, d)
      [] expr.t = "Pair" ->
            LET a == interpret_expression(expr.first, env, o, d) IN
            IF IsErr(a.v) THEN a
            ELSE LET c == interpret_expression(expr.second, a.env, a.out, d) IN
                 IF IsErr(c.v) THEN c ELSE Ret(PairV(a.v, c.v), c.env, c.out)
      [] expr.t = "BinaryOp" ->
            interpret_binary_op(expr.left, expr.operator, expr.right, env, o, d)
      [] expr.t = "Function" ->
            Ret(FunctionV(expr.param, expr.body, env), env, o)
      [] expr.t = "FunctionCall" ->
            interpret_function_call(expr.function, expr.argument, env, o, d)
      [] expr.t = "LeftInject" ->
            LET r == interpret_expression(expr.operand, env, o, d)
            IN  IF IsErr(r.v) THEN r ELSE Ret(LeftInjectV(r.v), r.env, r.out)
      [] expr.t = "RightInject" ->
            LET r == interpret_expression(expr.operand, env, o, d)
            IN  IF IsErr(r.v) THEN r ELSE Ret(RightInjectV(r.v), r.env, r.out)
      [] expr.t = "Fix" ->
            LET r == interpret_expression(expr.function, env, o, d)
            IN  IF IsErr(r.v) THEN r
                ELSE IF r.v.k = "Function" THEN Ret(FixedPointV(r.v), r.env, r.out)
                ELSE Ret(RuntimeError("Fix can only be applied to functions"), r.env, r.out)
      [] expr.t = "Block" ->
            \* with_new_scope: push, run the closure, pop.  The closure works
            \* on Interpreter::with_environment(env.clone()).
            LET pushed == push_scope(env)
                ran == interpret_statements(expr.statements, 1, pushed, o, d)
                fin == IF IsErr(ran.v) THEN ran
                       ELSE IF expr.expression.t # "None"
                            THEN interpret_expression(expr.expression, ran.env, ran.out, d)
                            ELSE Ret(UnitV, ran.env, ran.out)
            IN  Ret(fin.v, pop_scope(pushed), fin.out)
      [] expr.t = "Print" ->
            LET r == interpret_expression(expr.operand, env, o, d)
            IN  IF IsErr(r.v) THEN r ELSE Ret(UnitV, r.env, Append(r.out, r.v))
      [] expr.t = "For" ->
            LET it == interpret_expression(expr.iterable, env, o, d) IN
            IF IsErr(it.v) THEN it
            ELSE IF it.v.k = "List" THEN
                LET pushed == push_scope(it.env)
                    fin == interpret_for_body(expr.variable, expr.body, it.v.xs, 1,
                                              pushed, it.out, d)
                IN  Ret(fin.v, pop_scope(pushed), fin.out)
            ELSE Ret(RtTypeError("List"), it.env, it.out)
      [] expr.t = "FirstProjection" ->
            LET r == interpret_expression(expr.pair, env, o, d)
            IN  IF IsErr(r.v) THEN r
                ELSE IF r.v.k = "Pair" THEN Ret(r.v.first, r.env, r.out)
                ELSE Ret(RtTypeError("Pair"), r.env, r.out)
      [] expr.t = "SecondProjection" ->
            LET r == interpret_expression(expr.pair, env, o, d)
            IN  IF IsErr(r.v) THEN r
                ELSE IF r.v.k = "Pair" THEN Ret(r.v.second, r.env, r.out)
                ELSE Ret(RtTypeError("Pair"), r.env, r.out)
      [] expr.t = "Cons" ->
            LET h == interpret_expression(expr.head, env, o, d) IN
            IF IsErr(h.v) THEN h
            ELSE LET tl == interpret_expression(expr.tail, h.env, h.out, d) IN
                 IF IsErr(tl.v) THEN tl
                 ELSE IF tl.v.k = "List"
                      THEN Ret(ListV(list_insert_front(h.v, tl.v.xs)), tl.env, tl.out)
                 ELSE Ret(RtTypeError("List"), tl.env, tl.out)
      [] expr.t = "HeadProjection" ->
            LET r == interpret_expression(expr.list, env, o, d)
            IN  IF IsErr(r.v) THEN r
                ELSE IF r.v.k = "List" THEN Ret(head_of(r.v.xs), r.env, r.out)
                ELSE Ret(RtTypeError("List"), r.env, r.out)
      [] expr.t = "TailProjection" ->
            LET r == interpret_expression(expr.list, env, o, d)
            IN  IF IsErr(r.v) THEN r
                ELSE IF r.v.k = "List" THEN Ret(tail_of(r.v.xs), r.env, r.out)
                ELSE Ret(RtTypeError("List"), r.env, r.out)
      [] expr.t = "Range" ->
            LET s == interpret_expression(expr.start, env, o, d) IN
            IF IsErr(s.v) THEN s
            ELSE LET e == interpret_expression(expr.end, s.env, s.out, d) IN
                 IF IsErr(e.v) THEN e
                 ELSE IF s.v.k = "Int" /\ e.v.k = "Int"
                      THEN Ret(ListV(range_list(s.v.n, e.v.n)), e.env, e.out)
                 ELSE Ret(RtTypeError("Int"), e.env, e.out)
      [] expr.t = "Case" ->
            LET sc == interpret_expression(expr.expression, env, o, d) IN
            IF IsErr(sc.v) THEN sc
            ELSE IF sc.v.k = "LeftInject" THEN
                LET inner == bind(push_scope(sc.env), expr.left_pattern, sc.v.inner)
                    result == interpret_expression(expr.left_body, inner, sc.out, d)
                IN  Ret(result.v, pop_scope(result.env), result.out)
            ELSE IF sc.v.k = "RightInject" THEN
                LET inner == bind(push_scope(sc.env), expr.right_pattern, sc.v.inner)
                    result == interpret_expression(expr.right_body, inner, sc.out, d)
                IN  Ret(result.v, pop_scope(result.env), result.out)
            ELSE Ret(RtTypeError("Sum Type"), sc.env, sc.out)
      [] expr.t = "If" ->
            LET c == interpret_expression(expr.condition, env, o, d) IN
            IF IsErr(c.v) THEN c
            ELSE IF c.v.k = "Bool" THEN
                IF c.v.b THEN interpret_expression(expr.then_branch, c.env, c.out, d)
                ELSE IF expr.else_branch.t # "None"
                     THEN interpret_expression(expr.else_branch, c.env, c.out, d)
                     ELSE Ret(UnitV, c.env, c.out)
            ELSE Ret(RtTypeError("Bool"), c.env, c.out)

----------------------------------------------------------------------------
(* Driver 1: the runtime environment used directly through its API         *)
(* (push_scope / pop_scope / bind / lookup), as the unit tests of          *)
(* interpreter/environment.rs do.                                          *)

EnvNames == <<"x", "y">>
EnvValues == <<IntV(1), IntV(2)>>

NameSet == {EnvNames[i] : i \in 1..Len(EnvNames)}

Idle == [op |-> "none"]

\* Reference semantics kept beside the environment: a stack of complete
\* views (name -> Option<Value>); a push copies the current view, a bind
\* overwrites one entry of the top view, a pop of a pushed view drops it.
RefNew == <<[nm \in NameSet |-> None]>>
RefPush(ref) == Append(ref, ref[Len(ref)])
RefPop(ref) == IF Len(ref) > 1 THEN SubSeq(ref, 1, Len(ref) - 1) ELSE ref
RefBind(ref, name, value) ==
    [ref EXCEPT ![Len(ref)] = [@ EXCEPT ![name] = Some(value)]]
RECURSIVE RefRun(_, _, _)
RefRun(ref, f, i) ==
    IF i > Len(f) THEN ref
    ELSE RefRun(CASE f[i].op = "push_scope" -> RefPush(ref)
                  [] f[i].op = "pop_scope" -> RefPop(ref)
                  [] f[i].op = "bind" -> RefBind(ref, f[i].name, f[i].value),
                f, i + 1)

\* the calls a closure can make, and the closures of at most MaxClosureOps calls
ClosureOps ==
    {[op |-> "push_scope"], [op |-> "pop_scope"]}
        \cup {[op |-> "bind", name |-> EnvNames[i], value |-> EnvValues[j]] :
                 i \in 1..Len(EnvNames), j \in 1..Len(EnvValues)}
Closures == UNION {[1..n -> ClosureOps] : n \in 0..MaxClosureOps}

InitEnv ==
    /\ mode = "env"
    /\ interp = EnvNew
    /\ out = <<>>
    /\ last = Idle
    /\ steps = 0
    /\ ghost = RefNew
    /\ checker = Idle
    /\ repl = Idle

EnvPushScope ==
    /\ mode = "env"
    /\ steps < MaxOps
    /\ Len(interp) < MaxScopes
    /\ interp' = push_scope(interp)
    /\ ghost' = RefPush(ghost)
    /\ last' = [op |-> "push_scope"]
    /\ steps' = steps + 1
    /\ UNCHANGED <<mode, out, checker, repl>>

EnvPopScope ==
    /\ mode = "env"
    /\ steps < MaxOps
    /\ interp' = pop_scope(interp)
    /\ ghost' = RefPop(ghost)
    /\ last' = [op |-> "pop_scope", before |-> ghost[Len(ghost)], entered |-> interp]
    /\ steps' = steps + 1
    /\ UNCHANGED <<mode, out, checker, repl>>

EnvBind ==
    /\ mode = "env"
    /\ steps < MaxOps
    /\ \E i \in 1..Len(EnvNames), j \in 1..Len(EnvValues) :
          /\ interp' = bind(interp, EnvNames[i], EnvValues[j])
          /\ ghost' = RefBind(ghost, EnvNames[i], EnvValues[j])
          /\ last' = [op |-> "bind", name |-> EnvNames[i]]
    /\ steps' = steps + 1
    /\ UNCHANGED <<mode, out, checker, repl>>

EnvWithNewScope ==
    /\ mode = "env"
    /\ steps < MaxOps
    /\ Len(interp) < MaxScopes
    /\ \E f \in Closures :
          /\ interp' = with_new_scope(interp, f)
          /\ ghost' = RefPop(RefRun(RefPush(ghost), f, 1))
          /\ last' = [op |-> "with_new_scope", f |-> f, entered |-> interp]
    /\ steps' = steps + 1
    /\ UNCHANGED <<mode, out, checker, repl>>

NextEnv == EnvPushScope \/ EnvPopScope \/ EnvBind \/ EnvWithNewScope

SpecEnv == InitEnv /\ [][NextEnv]_vars

\* index of the innermost scope that binds name (0 when none does)
InnermostBinder(env, name) ==
    LET S == {i \in 1..Len(env) : name \in DOMAIN env[i]}
    IN  IF S = {} THEN 0 ELSE CHOOSE i \in S : \A j \in S : j <= i

\* C4: after any sequence of push_scope, pop_scope and bind, lookup(n) is the
\* value bound to n in the innermost scope that binds n, and nothing when no
\* scope binds n; a bind is seen only until the scope it was made in is
\* popped, after which the shadowed outer binding is visible again with its
\* original value (the reference view stack says what must be visible).
C4_LookupInnermost ==
    mode = "env" =>
        \A nm \in NameSet :
            /\ lookup(interp, nm) =
                  (IF InnermostBinder(interp, nm) = 0 THEN None
                   ELSE Some(interp[InnermostBinder(interp, nm)][nm]))
            /\ lookup(interp, nm) = ghost[Len(ghost)][nm]
            /\ Len(ghost) = Len(interp)

\* a shadowing bind was made in an inner scope, the scope was popped, and
\* the outer binding is what lookup returns again
C4_Witness ==
    /\ mode = "env"
    /\ last.op = "pop_scope"
    /\ Len(interp) = 1
    /\ last.before["x"] = Some(IntV(2))
    /\ lookup(interp, "x") = Some(IntV(1))
    /\ lookup(interp, "y") = None

----------------------------------------------------------------------------
(* Driver 2: one Interpreter fed statements one at a time through          *)
(* interpret_statement, the way interpret_program and the REPL feed it.    *)
(* The statements come from a fixed corpus; the comment of each gives its  *)
(* surface syntax.                                                         *)

X == Identifier("x")

ScopeCorpus == <<
    \* 1: let x = 1;
    VariableDeclaration("x", NoType, Number(1)),
    \* 2: let x = 2;
    VariableDeclaration("x", NoType, Number(2)),
    \* 3: let f = fn(y) { x + y };
    VariableDeclaration("f", NoType,
        Function("y", NoType, Block(<<>>, BinaryOp(X, "Add", Identifier("y"))))),
    \* 4: let r = f(10);
    VariableDeclaration("r", NoType, FunctionCall(Identifier("f"), Number(10))),
    \* 5: let g = fn(x) { x + 1 };
    VariableDeclaration("g", NoType,
        Function("x", NoType, Block(<<>>, BinaryOp(X, "Add", Number(1))))),
    \* 6: let s = g(10);
    VariableDeclaration("s", NoType, FunctionCall(Identifier("g"), Number(10))),
    \* 7: { let x = 5; let t = x + 1; t };
    ExpressionStmt(Block(<<VariableDeclaration("x", NoType, Number(5)),
                           VariableDeclaration("t", NoType, BinaryOp(X, "Add", Number(1)))>>,
                         Identifier("t"))),
    \* 8: { let t = 1; 1 / 0 };
    ExpressionStmt(Block(<<VariableDeclaration("t", NoType, Number(1))>>,
                         BinaryOp(Number(1), "Divide", Number(0)))),
    \* 9: for i in [1, 2] { print(i + x) };
    ExpressionStmt(For("i", List(<<Number(1), Number(2)>>),
                       Block(<<>>, PrintE(BinaryOp(Identifier("i"), "Add", X))))),
    \* 10: case inl(7) of inl a => a + 1 | inr b => 0;
    ExpressionStmt(Case(LeftInject(Number(7)),
                        "a", BinaryOp(Identifier("a"), "Add", Number(1)),
                        "b", Number(0))),
    \* 11: case inr(0) of inl a => 1 | inr b => 1 / b;
    ExpressionStmt(Case(RightInject(Number(0)),
                        "a", Number(1),
                        "b", BinaryOp(Number(1), "Divide", Identifier("b")))),
    \* 12: f(1);
    ExpressionStmt(FunctionCall(Identifier("f"), Number(1))),
    \* 13: fn(p) { 1 / p }(0);
    ExpressionStmt(FunctionCall(
        Function("p", NoType, Block(<<>>, BinaryOp(Number(1), "Divide", Identifier("p")))),
        Number(0)))
>>

\* the i-th statement of the corpus is  let nm = ...;
Declares(i, nm) ==
    /\ ScopeCorpus[i].s = "VariableDeclaration"
    /\ ScopeCorpus[i].name = nm

\* names the corpus binds only inside a block, loop, branch or function body
InnerNames == {"t", "i", "a", "b", "p", "y"}

NoClosure == [fdefined |-> FALSE, xAtDef |-> None]

InitInterp ==
    /\ mode = "interp"
    /\ interp = EnvNew
    /\ out = <<>>
    /\ last = Idle
    /\ steps = 0
    /\ ghost = NoClosure
    /\ checker = Idle
    /\ repl = Idle

\* Interpreter::interpret_statement applied to the i-th statement of corpus
InterpStep(corpus, i) ==
    LET r == interpret_statement(corpus[i], interp, out, MaxCallDepth)
    IN  /\ interp' = r.env
        /\ out' = r.out
        /\ last' = [op |-> "interpret_statement", stmt |-> i, v |-> r.v,
                    before |-> interp]
        /\ steps' = steps + 1

InterpretStatement ==
    /\ mode = "interp"
    /\ steps < MaxSteps
    /\ \E i \in 1..Len(ScopeCorpus) :
          /\ InterpStep(ScopeCorpus, i)
          /\ ghost' = IF Declares(i, "f")
                      THEN [fdefined |-> TRUE, xAtDef |-> lookup(interp, "x")]
                      ELSE ghost
    /\ UNCHANGED <<mode, checker, repl>>

NextInterp == InterpretStatement

SpecInterp == InitInterp /\ [][NextInterp]_vars

IsScopedExpression(stmt) ==
    /\ stmt.s = "Expression"
    /\ stmt.expression.t \in {"Block", "For", "Case", "FunctionCall"}

\* C3: evaluating a block, a for loop, a case expression or a function
\* application leaves the interpreter's environment exactly as it was (same
\* scopes, same bindings) whether it yields a value or a runtime error, and no
\* name bound inside (let in the block, loop variable, pattern variable,
\* parameter) is visible afterwards.
C3_ScopedEvalRestoresEnv ==
    (mode = "interp" /\ last.op = "interpret_statement") =>
        /\ IsScopedExpression(ScopeCorpus[last.stmt]) => interp = last.before
        /\ Len(interp) = Len(last.before)
        /\ \A nm \in InnerNames : lookup(interp, nm) = None

\* a case branch ended in a runtime error with bindings in the environment
C3_Witness ==
    /\ mode = "interp"
    /\ last.op = "interpret_statement"
    /\ ScopeCorpus[last.stmt].s = "Expression"
    /\ ScopeCorpus[last.stmt].expression.t = "Case"
    /\ last.v = DivisionByZero
    /\ lookup(interp, "x") = Some(IntV(1))
    /\ lookup(interp, "f").some

\* C5: a closure's free variables resolve to the values they had when the
\* closure was constructed: f(10), with f = fn(y) { x + y }, yields the x of
\* the moment f was built plus 10 (or UndefinedVariable x when x was unbound
\* then), whatever x is bound to at the call; and in g = fn(x) { x + 1 } the
\* parameter shadows the captured x, so g(10) yields 11.
C5_ClosureCapturesDefinitionEnv ==
    (mode = "interp" /\ last.op = "interpret_statement") =>
        /\ (Declares(last.stmt, "r") /\ ghost.fdefined) =>
              IF ghost.xAtDef.some
              THEN /\ last.v = UnitV
                   /\ lookup(interp, "r") = Some(IntV(ghost.xAtDef.v.n + 10))
              ELSE last.v = UndefinedVariableErr("x")
        /\ (Declares(last.stmt, "s") /\ lookup(last.before, "g").some) =>
              /\ last.v = UnitV
              /\ lookup(interp, "s") = Some(IntV(11))

\* x was 1 when f was built, x is 2 at the call, and the call yields 11
C5_Witness ==
    /\ mode = "interp"
    /\ last.op = "interpret_statement"
    /\ Declares(last.stmt, "r")
    /\ ghost.fdefined
    /\ ghost.xAtDef = Some(IntV(1))
    /\ lookup(last.before, "x") = Some(IntV(2))
    /\ lookup(interp, "r") = Some(IntV(11))

----------------------------------------------------------------------------
(* Driver 3: the same interpreter stepping, on recursive definitions made  *)
(* with fix and with fn declarations.                                      *)

N == Identifier("n")
Self == Identifier("self")

\* { if n <= 1 { 1 } else { n * rec(n - 1) } }
FactorialBody(rec) ==
    Block(<<>>,
        If(BinaryOp(N, "LessThanEqual", Number(1)),
           Block(<<>>, Number(1)),
           Block(<<>>, BinaryOp(N, "Multiply",
                          FunctionCall(Identifier(rec), BinaryOp(N, "Subtract", Number(1)))))))

FixDefs == <<
    \* 1: let fact = fix(fn(self) { fn(n) { if n <= 1 { 1 } else { n * self(n - 1) } } });
    VariableDeclaration("fact", NoType,
        Fix(Function("self", NoType,
                Block(<<>>, Function("n", NoType, FactorialBody("self")))))),
    \* 2: fn fact(n) { if n <= 1 { 1 } else { n * fact(n - 1) } }
    FunctionDeclaration("fact", "n", NoType, NoType, FactorialBody("fact")),
    \* 3: let me = fix(fn(self) { fn(n) { if n <= 0 { self } else { self(n - 1) } } });
    VariableDeclaration("me", NoType,
        Fix(Function("self", NoType,
                Block(<<>>, Function("n", NoType,
                    Block(<<>>,
                        If(BinaryOp(N, "LessThanEqual", Number(0)),
                           Block(<<>>, Self),
                           Block(<<>>, FunctionCall(Self,
                                           BinaryOp(N, "Subtract", Number(1)))))))))))
>>

\* let r = fact(k);  for k in 0..MaxN
FactCalls ==
    [j \in 1..(MaxN + 1) |->
        VariableDeclaration("r", NoType, FunctionCall(Identifier("fact"), Number(j - 1)))]

\* let w = me(k);  for k in 0..MaxN
MeCalls ==
    [j \in 1..(MaxN + 1) |->
        VariableDeclaration("w", NoType, FunctionCall(Identifier("me"), Number(j - 1)))]

FixCorpus == FixDefs \o FactCalls \o MeCalls

IsFactCall(i) == i > Len(FixDefs) /\ i <= Len(FixDefs) + MaxN + 1
IsMeCall(i) == i > Len(FixDefs) + MaxN + 1
CallArg(i) == FixCorpus[i].value.argument.value

InitFix ==
    /\ mode = "fix"
    /\ interp = EnvNew
    /\ out = <<>>
    /\ last = Idle
    /\ steps = 0
    /\ ghost = Idle
    /\ checker = Idle
    /\ repl = Idle

InterpretRecursive ==
    /\ mode = "fix"
    /\ steps < MaxSteps
    /\ \E i \in 1..Len(FixCorpus) : InterpStep(FixCorpus, i)
    /\ UNCHANGED <<mode, ghost, checker, repl>>

NextFix == InterpretRecursive

SpecFix == InitFix /\ [][NextFix]_vars

\* the reference recursive function
RECURSIVE Factorial(_)
Factorial(i) == IF i <= 1 THEN 1 ELSE i * Factorial(i - 1)

\* C6: applying a FixedPoint binds the self parameter, at the first and at
\* every recursive call, to a FixedPoint equal to the one applied: me(k),
\* which returns its self after k recursive calls, yields the value bound to
\* me; and the factorial defined with fix or with a fn declaration yields k!
\* for every k of 0..MaxN.
C6_FixedPointRecursion ==
    (mode = "fix" /\ last.op = "interpret_statement") =>
        /\ (IsFactCall(last.stmt) /\ lookup(last.before, "fact").some) =>
              /\ last.v = UnitV
              /\ lookup(interp, "r") = Some(IntV(Factorial(CallArg(last.stmt))))
        /\ (IsMeCall(last.stmt) /\ lookup(last.before, "me").some) =>
              /\ last.v = UnitV
              /\ lookup(interp, "w") = lookup(last.before, "me")
              /\ lookup(interp, "w").v.k = "FixedPoint"

\* fact declared with fn, applied to 5, yields 120
C6_Witness ==
    /\ mode = "fix"
    /\ last.op = "interpret_statement"
    /\ IsFactCall(last.stmt)
    /\ CallArg(last.stmt) = 5
    /\ lookup(last.before, "fact").some
    /\ lookup(last.before, "fact").v.function.param = "fact"
    /\ lookup(interp, "r") = Some(IntV(120))

----------------------------------------------------------------------------
(* Types (typechecker/types.rs)                                            *)

TyInt == [ty |-> "Int"]
TyBool == [ty |-> "Bool"]
TyString == [ty |-> "String"]
TyUnit == [ty |-> "Unit"]
TyUnknown == [ty |-> "Unknown"]
TyError == [ty |-> "Error"]
TyFunction(p, r) == [ty |-> "Function", param |-> p, result |-> r]
TyPair(a, c) == [ty |-> "Pair", first |-> a, second |-> c]
TyList(e) == [ty |-> "List", element |-> e]
TyRecursive(i) == [ty |-> "Recursive", inner |-> i]
TySum(l, r) == [ty |-> "Sum", left |-> l, right |-> r]

\* TypeError variants (typechecker/checker.rs)
UndefinedVariable(nm) == [e |-> "UndefinedVariable", name |-> nm]
TypeMismatch(exp, fnd) == [e |-> "TypeMismatch", expected |-> exp, found |-> fnd]
InvalidBinaryOperation(l, op, r) ==
    [e |-> "InvalidBinaryOperation", left |-> l, op |-> op, right |-> r]
RedefinedVariable(nm) == [e |-> "RedefinedVariable", name |-> nm]
ImportError(m, p) == [e |-> "ImportError", message |-> m, path |-> p]
\* unbounded recursion of the checker exhausts the host stack: no TypeError
\* is returned, the process stops
CheckerStackExhausted == [e |-> "StackExhausted"]

is_assignable_to(a, b) ==
    \/ a = TyError \/ b = TyError
    \/ a = TyUnknown \/ b = TyUnknown
    \/ a = b

ArithmeticOps == {"Add", "Subtract", "Multiply", "Divide"}
EqualityOps == {"Equal", "NotEqual"}
OrderOps == {"LessThan", "LessThanEqual", "GreaterThan", "GreaterThanEqual"}
LogicalOps == {"LogicalAnd", "LogicalOr"}

can_binary_op_left(l, op, r) == Some(l)

\* the match arms of Type::can_binary_op, in their order
can_binary_op(l, op, r) ==
    CASE l = TyInt /\ r = TyInt /\ op \in ArithmeticOps -> Some(TyInt)
      [] l = TyInt /\ r = TyInt /\ op \in EqualityOps \cup OrderOps -> Some(TyBool)
      [] l = TyBool /\ r = TyBool /\ op \in EqualityOps -> Some(TyBool)
      [] l = TyString /\ r = TyString /\ op = "Add" -> Some(TyString)
      [] l = TyString /\ r = TyString /\ op \in EqualityOps -> Some(TyBool)
      [] l = TyBool /\ r = TyBool /\ op \in LogicalOps -> Some(TyBool)
      [] OTHER ->
            IF op = "Assign" /\ is_assignable_to(l, r) THEN Some(r)
            ELSE IF l = TyError \/ r = TyError THEN Some(TyError)
            ELSE IF (l = TyUnknown \/ r = TyUnknown)
                    /\ op \in EqualityOps \cup OrderOps \cup LogicalOps
                 THEN Some(TyBool)
            ELSE IF l = TyUnknown THEN Some(r)
            ELSE IF r = TyUnknown THEN Some(l)
            ELSE None

----------------------------------------------------------------------------
(* Type environment (typechecker/environment.rs): a chain of scopes linked *)
(* by parent pointers, modelled as the sequence root .. current.           *)

\* Environment::new
TEnvNew == <<EmptyScope>>

with_parent(parent) == Append(parent, EmptyScope)

tenv_bind(env, name, t) == [env EXCEPT ![Len(env)] = ScopeInsert(@, name, t)]

\* bindings.get(name).or_else(|| parent.lookup(name))
RECURSIVE tenv_lookup_from(_, _, _)
tenv_lookup_from(env, i, name) ==
    IF i = 0 THEN None
    ELSE IF name \in DOMAIN env[i] THEN Some(env[i][name])
    ELSE tenv_lookup_from(env, i - 1, name)

tenv_lookup(env, name) == tenv_lookup_from(env, Len(env), name)

tenv_is_bound_anywhere(env, name) == tenv_lookup(env, name).some

tenv_is_bound_locally(env, name) == name \in DOMAIN env[Len(env)]

enter_scope(env) == with_parent(env)

exit_scope(env) ==
    IF Len(env) > 1 THEN SubSeq(env, 1, Len(env) - 1) ELSE env

\* parent bindings first, overridden by the current scope
get_all_bindings_types(env) == get_all_bindings_upto(env, Len(env))

----------------------------------------------------------------------------
(* Type checker (typechecker/checker.rs)                                   *)

\* TypeResult<Type>, together with self.errors after the call
TOk(t, errs) == [ok |-> TRUE, ty |-> t, errors |-> errs]
TErr(er, errs) == [ok |-> FALSE, err |-> er, errors |-> errs]

\* TypeResult<TypedStatement>, together with self.environment and
\* self.errors after the call
SOk(env, errs) == [ok |-> TRUE, environment |-> env, errors |-> errs]
SErr(er, env, errs) == [ok |-> FALSE, err |-> er, environment |-> env, errors |-> errs]

\* TypeResult<Type> of convert_type_expression, which takes &self
COk(t) == [ok |-> TRUE, ty |-> t]
CErr(er) == [ok |-> FALSE, err |-> er]

RECURSIVE convert_type_expression(_)
convert_type_expression(type_expr) ==
    CASE type_expr.te = "Int" -> COk(TyInt)
      [] type_expr.te = "Bool" -> COk(TyBool)
      [] type_expr.te = "String" -> COk(TyString)
      [] type_expr.te = "List" ->
            LET el == convert_type_expression(type_expr.element)
            IN  IF el.ok THEN COk(TyList(el.ty)) ELSE el
      [] type_expr.te = "Function" ->
            LET p == convert_type_expression(type_expr.param) IN
            IF ~p.ok THEN p
            ELSE LET r == convert_type_expression(type_expr.result)
                 IN  IF r.ok THEN COk(TyFunction(p.ty, r.ty)) ELSE r
      [] type_expr.te = "Pair" ->
            LET a == convert_type_expression(type_expr.first) IN
            IF ~a.ok THEN a
            ELSE LET c == convert_type_expression(type_expr.second)
                 IN  IF c.ok THEN COk(TyPair(a.ty, c.ty)) ELSE c
      [] type_expr.te = "Recursive" ->
            LET inner == convert_type_expression(type_expr.inner)
            IN  IF inner.ok THEN COk(TyRecursive(inner.ty)) ELSE inner
      [] type_expr.te = "Named" -> CErr(UndefinedVariable(type_expr.name))

refine_type_with_annotation(inferred, annotated) ==
    CASE inferred.ty = "Function" /\ annotated.ty = "Function" ->
            TyFunction(IF inferred.param = TyUnknown THEN annotated.param ELSE inferred.param,
                       IF inferred.result = TyUnknown THEN annotated.result ELSE inferred.result)
      [] inferred.ty = "List" /\ annotated.ty = "List" ->
            TyList(IF inferred.element = TyUnknown THEN annotated.element ELSE inferred.element)
      [] inferred.ty = "Sum" /\ annotated.ty = "Sum" ->
            TySum(IF inferred.left = TyUnknown THEN annotated.left ELSE inferred.left,
                  IF inferred.right = TyUnknown THEN annotated.right ELSE inferred.right)
      [] OTHER -> inferred

\* the match arms of refine_type_with_context, in their order; the arms
\* (Unknown, List) and (Unknown, Sum) are shadowed by the first one
RECURSIVE refine_type_with_context(_, _)
refine_type_with_context(original, context) ==
    IF original = TyUnknown /\ context # TyUnknown THEN context
    ELSE IF original.ty = "List" /\ context.ty = "List"
        THEN TyList(refine_type_with_context(original.element, context.element))
    ELSE IF context = TyUnknown THEN original
    ELSE IF original.ty = "Sum" /\ context.ty = "Sum"
        THEN TySum(refine_type_with_context(original.left, context.left),
                   refine_type_with_context(original.right, context.right))
    ELSE IF original.ty = "Function"
        THEN TyFunction(refine_type_with_context(original.param, TyUnknown),
                        refine_type_with_context(original.result, TyUnknown))
    ELSE original

RECURSIVE types_compatible(_, _)
types_equal(t1, t2) == t1 = t2

types_compatible(t1, t2) ==
    IF t1 = TyUnknown \/ t2 = TyUnknown THEN TRUE
    ELSE IF t1.ty = "Function" /\ t2.ty = "Function"
        THEN types_compatible(t1.param, t2.param) /\ types_compatible(t1.result, t2.result)
    ELSE IF t1.ty = "List" /\ t2.ty = "List"
        THEN types_compatible(t1.element, t2.element)
    ELSE IF t1.ty = "Pair" /\ t2.ty = "Pair"
        THEN types_compatible(t1.first, t2.first) /\ types_compatible(t1.second, t2.second)
    ELSE IF t1.ty = "Sum" /\ t2.ty = "Sum"
        THEN types_compatible(t1.left, t2.left) /\ types_compatible(t1.right, t2.right)
    ELSE t1 = t2

\* Option::or
OptOr(a, c) == IF a.some THEN a ELSE c

RECURSIVE expression_uses_parameter(_, _)
RECURSIVE statement_uses_parameter(_, _)
RECURSIVE analyze_parameter_usage(_, _)
RECURSIVE analyze_parameter_usage_in_statement(_, _)
RECURSIVE analyze_parameter_usage_in_statements(_, _, _)
RECURSIVE analyze_function_usage(_, _, _)
RECURSIVE analyze_function_usage_in_statements(_, _, _, _)
RECURSIVE parameter_used_as_function(_, _)

expression_uses_parameter(param, expr) ==
    CASE expr.t = "Identifier" -> expr.name = param
      [] expr.t = "BinaryOp" ->
            \/ expression_uses_parameter(param, expr.left)
            \/ expression_uses_parameter(param, expr.right)
      [] expr.t = "FunctionCall" ->
            \/ expression_uses_parameter(param, expr.function)
            \/ expression_uses_parameter(param, expr.argument)
      [] expr.t \in {"FirstProjection", "SecondProjection"} ->
            expression_uses_parameter(param, expr.pair)
      [] expr.t \in {"HeadProjection", "TailProjection"} ->
            expression_uses_parameter(param, expr.list)
      [] expr.t = "Case" ->
            \/ expression_uses_parameter(param, expr.expression)
            \/ expression_uses_parameter(param, expr.left_body)
            \/ expression_uses_parameter(param, expr.right_body)
      [] expr.t = "Block" ->
            \/ \E i \in 1..Len(expr.statements) :
                  statement_uses_parameter(param, expr.statements[i])
            \/ (expr.expression.t # "None"
                /\ expression_uses_parameter(param, expr.expression))
      [] OTHER -> FALSE

statement_uses_parameter(param, stmt) ==
    CASE stmt.s = "VariableDeclaration" -> expression_uses_parameter(param, stmt.value)
      [] stmt.s = "FunctionDeclaration" -> expression_uses_parameter(param, stmt.body)
      [] stmt.s = "Expression" -> expression_uses_parameter(param, stmt.expression)

analyze_parameter_usage_in_statement(param, stmt) ==
    CASE stmt.s = "VariableDeclaration" -> analyze_parameter_usage(param, stmt.value)
      [] stmt.s = "FunctionDeclaration" -> analyze_parameter_usage(param, stmt.body)
      [] stmt.s = "Expression" -> analyze_parameter_usage(param, stmt.expression)

\* the loop over a block's statements in analyze_parameter_usage
analyze_parameter_usage_in_statements(param, statements, i) ==
    IF i > Len(statements) THEN None
    ELSE LET u == analyze_parameter_usage_in_statement(param, statements[i])
         IN  IF u.some THEN u
             ELSE analyze_parameter_usage_in_statements(param, statements, i + 1)

analyze_parameter_usage(param, expr) ==
    CASE expr.t = "BinaryOp" ->
            LET left_usage == analyze_parameter_usage(param, expr.left)
                right_usage == analyze_parameter_usage(param, expr.right)
                uses == \/ expression_uses_parameter(param, expr.left)
                        \/ expression_uses_parameter(param, expr.right)
                IsA(u, tag) == u.some /\ u.v.ty = tag
            IN  IF IsA(left_usage, "Pair") THEN left_usage
                ELSE IF IsA(right_usage, "Pair") THEN right_usage
                ELSE IF expr.operator \in ArithmeticOps
                        /\ (IsA(left_usage, "List") \/ IsA(right_usage, "List"))
                     THEN Some(TyList(TyInt))
                ELSE IF uses THEN
                        (IF expr.operator \in ArithmeticOps THEN Some(TyInt)
                         ELSE IF expr.operator \in LogicalOps THEN Some(TyBool)
                         ELSE None)
                ELSE OptOr(left_usage, right_usage)
      [] expr.t = "FunctionCall" ->
            IF expr.function.t = "Identifier" /\ expr.function.name = param
            THEN Some(TyFunction(TyUnknown, TyUnknown))
            ELSE IF /\ expr.argument.t = "TailProjection"
                    /\ expression_uses_parameter(param, expr.argument.list)
            THEN Some(TyList(TyUnknown))
            ELSE OptOr(analyze_parameter_usage(param, expr.function),
                       analyze_parameter_usage(param, expr.argument))
      [] expr.t \in {"FirstProjection", "SecondProjection"} ->
            IF expression_uses_parameter(param, expr.pair)
            THEN Some(TyPair(TyUnknown, TyUnknown))
            ELSE analyze_parameter_usage(param, expr.pair)
      [] expr.t \in {"HeadProjection", "TailProjection"} ->
            IF expression_uses_parameter(param, expr.list)
            THEN Some(TyList(TyUnknown))
            ELSE analyze_parameter_usage(param, expr.list)
      [] expr.t = "Case" ->
            IF expression_uses_parameter(param, expr.expression)
            THEN Some(TySum(TyUnknown, TyUnknown))
            ELSE OptOr(analyze_parameter_usage(param, expr.left_body),
                       analyze_parameter_usage(param, expr.right_body))
      [] expr.t = "Block" ->
            LET u == analyze_parameter_usage_in_statements(param, expr.statements, 1)
            IN  IF u.some THEN u
                ELSE IF expr.expression.t # "None"
                     THEN analyze_parameter_usage(param, expr.expression)
                     ELSE None
      [] OTHER -> None

\* Get a type hint for an expression without full type checking
get_expression_type_hint(expr, env) ==
    CASE expr.t = "Number" -> TyInt
      [] expr.t = "Boolean" -> TyBool
      [] expr.t = "Identifier" ->
            LET found == tenv_lookup(env, expr.name)
            IN  IF found.some THEN found.v ELSE TyUnknown
      [] expr.t = "Function" -> TyFunction(TyUnknown, TyUnknown)
      [] OTHER -> TyUnknown

\* the loop over a block's expression statements in analyze_function_usage
analyze_function_usage_in_statements(param, statements, i, env) ==
    IF i > Len(statements) THEN None
    ELSE LET u == IF statements[i].s = "Expression"
                  THEN analyze_function_usage(param, statements[i].expression, env)
                  ELSE None
         IN  IF u.some THEN u
             ELSE analyze_function_usage_in_statements(param, statements, i + 1, env)

analyze_function_usage(param, expr, env) ==
    CASE expr.t = "FunctionCall" ->
            IF expr.function.t = "Identifier" /\ expr.function.name = param
            THEN Some(TyFunction(get_expression_type_hint(expr.argument, env), TyUnknown))
            ELSE OptOr(analyze_function_usage(param, expr.function, env),
                       analyze_function_usage(param, expr.argument, env))
      [] expr.t = "Function" -> analyze_function_usage(param, expr.body, env)
      [] expr.t = "Block" ->
            LET u == analyze_function_usage_in_statements(param, expr.statements, 1, env)
            IN  IF u.some THEN u
                ELSE IF expr.expression.t # "None"
                     THEN analyze_function_usage(param, expr.expression, env)
                     ELSE None
      [] OTHER -> None

parameter_used_as_function(param, expr) ==
    CASE expr.t = "FunctionCall" ->
            expr.function.t = "Identifier" /\ expr.function.name = param
      [] expr.t = "Function" -> parameter_used_as_function(param, expr.body)
      [] expr.t = "Block" ->
            \/ \E i \in 1..Len(expr.statements) :
                  /\ expr.statements[i].s = "Expression"
                  /\ parameter_used_as_function(param, expr.statements[i].expression)
            \/ (expr.expression.t # "None"
                /\ parameter_used_as_function(param, expr.expression))
      [] OTHER -> FALSE

infer_parameter_type(param, body, env) ==
    LET usage == analyze_parameter_usage(param, body)
        func_type == analyze_function_usage(param, body, env)
    IN  IF usage.some THEN usage.v
        ELSE IF func_type.some THEN func_type.v
        ELSE IF parameter_used_as_function(param, body)
             THEN TyFunction(TyUnknown, TyUnknown)
        ELSE TyUnknown

RECURSIVE check_expression(_, _, _, _)
RECURSIVE check_statement(_, _, _, _)
RECURSIVE check_elements(_, _, _, _, _, _)
RECURSIVE check_block_statements(_, _, _, _, _)
RECURSIVE load_and_check_module(_, _, _)

\* elements.iter().map(|elem| self.check_expression(elem)).collect(): the
\* element types in order, or the first error
check_elements(elements, i, acc, env, errors, d) ==
    IF i > Len(elements) THEN [ok |-> TRUE, tys |-> acc, errors |-> errors]
    ELSE LET r == check_expression(elements[i], env, errors, d)
         IN  IF ~r.ok THEN r
             ELSE check_elements(elements, i + 1, Append(acc, r.ty), env, r.errors, d)

\* `for stmt in statements { block_checker.check_statement(stmt)?; }`
check_block_statements(statements, i, env, errors, d) ==
    IF i > Len(statements) THEN SOk(env, errors)
    ELSE LET r == check_statement(statements[i], env, errors, d)
         IN  IF ~r.ok THEN r
             ELSE check_block_statements(statements, i + 1, r.environment, r.errors, d)

\* Expression::Function once the parameter type is known (param_type): the
\* body is checked by function_checker, which has a child environment and
\* its own error list
check_function_body(expr, env, errors, param_type, d) ==
    IF ~param_type.ok THEN TErr(param_type.err, errors)
    ELSE LET fenv == tenv_bind(with_parent(env), expr.param, param_type.ty)
             typed_body == check_expression(expr.body, fenv, <<>>, d)
         IN  IF ~typed_body.ok THEN TErr(typed_body.err, errors)
             ELSE TOk(TyFunction(param_type.ty, typed_body.ty), errors)

\* self.environment is left as it was by every expression of the model;
\* self.errors grows only in Fix
check_expression(expr, env, errors, d) ==
    CASE expr.t = "Number" -> TOk(TyInt, errors)
      [] expr.t = "Boolean" -> TOk(TyBool, errors)
      [] expr.t = "Identifier" ->
            LET found == tenv_lookup(env, expr.name)
            IN  IF found.some THEN TOk(found.v, errors)
                ELSE TErr(UndefinedVariable(expr.name), errors)
      [] expr.t = "BinaryOp" ->
            LET typed_left == check_expression(expr.left, env, errors, d) IN
            IF ~typed_left.ok THEN typed_left
            ELSE LET typed_right == check_expression(expr.right, env, typed_left.errors, d) IN
            IF ~typed_right.ok THEN typed_right
            ELSE LET result_type == can_binary_op(typed_left.ty, expr.operator, typed_right.ty)
                 IN  IF result_type.some THEN TOk(result_type.v, typed_right.errors)
                     ELSE TErr(InvalidBinaryOperation(typed_left.ty, expr.operator,
                                                      typed_right.ty),
                               typed_right.errors)
      [] expr.t = "Function" ->
            check_function_body(expr, env, errors,
                IF expr.param_type.te # "None"
                THEN convert_type_expression(expr.param_type)
                ELSE COk(infer_parameter_type(expr.param, expr.body, env)), d)
      [] expr.t = "FunctionCall" ->
            LET function_typed == check_expression(expr.function, env, errors, d) IN
            IF ~function_typed.ok THEN function_typed
            ELSE LET argument_typed == check_expression(expr.argument, env,
                                                        function_typed.errors, d) IN
            IF ~argument_typed.ok THEN argument_typed
            ELSE LET fty == function_typed.ty
                     aty == argument_typed.ty
                     errs == argument_typed.errors
                 IN  IF fty.ty = "Function" THEN
                         LET refined_param == refine_type_with_context(fty.param, aty)
                             refined_result == refine_type_with_context(fty.result, TyUnknown)
                             HasUnknownSide(t) ==
                                 t.ty = "Sum" /\ (t.left = TyUnknown \/ t.right = TyUnknown)
                             is_compatible ==
                                 \/ types_compatible(aty, refined_param)
                                 \/ (aty = TyUnknown /\ refined_param.ty = "List")
                                 \/ (aty.ty = "List" /\ aty.element = TyUnknown)
                                 \/ HasUnknownSide(aty)
                                 \/ HasUnknownSide(refined_param)
                         IN  IF is_compatible THEN TOk(refined_result, errs)
                             ELSE TErr(TypeMismatch(refined_param, aty), errs)
                     ELSE IF fty = TyUnknown THEN TOk(TyUnknown, errs)
                     ELSE TErr(TypeMismatch(TyFunction(TyUnknown, TyUnknown), fty), errs)
      [] expr.t = "List" ->
            IF Len(expr.elements) = 0 THEN TOk(TyList(TyUnknown), errors)
            ELSE LET typed_elements == check_elements(expr.elements, 1, <<>>, env, errors, d) IN
                 IF ~typed_elements.ok THEN typed_elements
                 ELSE LET tys == typed_elements.tys
                          bad == {i \in 2..Len(tys) : ~is_assignable_to(tys[i], tys[1])}
                      IN  IF bad # {}
                          THEN TErr(TypeMismatch(tys[1],
                                        tys[CHOOSE i \in bad : \A j \in bad : i <= j]),
                                    typed_elements.errors)
                          ELSE TOk(TyList(tys[1]), typed_elements.errors)
      [] expr.t = "Pair" ->
            LET typed_first == check_expression(expr.first, env, errors, d) IN
            IF ~typed_first.ok THEN typed_first
            ELSE LET typed_second == check_expression(expr.second, env, typed_first.errors, d)
                 IN  IF ~typed_second.ok THEN typed_second
                     ELSE TOk(TyPair(typed_first.ty, typed_second.ty), typed_second.errors)
      [] expr.t = "LeftInject" ->
            LET typed_value == check_expression(expr.operand, env, errors, d)
            IN  IF ~typed_value.ok THEN typed_value
                ELSE TOk(TySum(typed_value.ty, TyUnknown), typed_value.errors)
      [] expr.t = "RightInject" ->
            LET typed_value == check_expression(expr.operand, env, errors, d)
            IN  IF ~typed_value.ok THEN typed_value
                ELSE TOk(TySum(TyUnknown, typed_value.ty), typed_value.errors)
      [] expr.t = "Fix" ->
            LET func_typed == check_expression(expr.function, env, errors, d) IN
            IF ~func_typed.ok THEN func_typed
            ELSE LET fty == func_typed.ty IN
                 IF fty.ty = "Function" THEN
                     IF fty.param.ty = "Function" /\ fty.result.ty = "Function"
                     THEN TOk(TyFunction(fty.result.param, fty.result.result),
                              func_typed.errors)
                     ELSE TOk(fty.result, func_typed.errors)
                 ELSE \* the mismatch is pushed on self.errors and Ok is returned
                      TOk(TyError,
                          Append(func_typed.errors,
                                 TypeMismatch(TyFunction(TyUnknown, TyUnknown), fty)))
      [] expr.t = "Block" ->
            \* block_checker: child environment, its own error list
            LET ran == check_block_statements(expr.statements, 1, with_parent(env), <<>>, d)
            IN  IF ~ran.ok THEN TErr(ran.err, errors)
                ELSE IF expr.expression.t # "None" THEN
                    LET fin == check_expression(expr.expression, ran.environment, ran.errors, d)
                    IN  IF fin.ok THEN TOk(fin.ty, errors) ELSE TErr(fin.err, errors)
                ELSE TOk(TyUnit, errors)
      [] expr.t \in {"FirstProjection", "SecondProjection"} ->
            LET pair_typed == check_expression(expr.pair, env, errors, d) IN
            IF ~pair_typed.ok THEN pair_typed
            ELSE IF pair_typed.ty.ty = "Pair"
                THEN TOk(IF expr.t = "FirstProjection" THEN pair_typed.ty.first
                         ELSE pair_typed.ty.second,
                         pair_typed.errors)
            ELSE TErr(TypeMismatch(TyPair(TyError, TyError), pair_typed.ty),
                      pair_typed.errors)
      [] expr.t = "Cons" ->
            LET head_typed == check_expression(expr.head, env, errors, d) IN
            IF ~head_typed.ok THEN head_typed
            ELSE LET tail_typed == check_expression(expr.tail, env, head_typed.errors, d) IN
            IF ~tail_typed.ok THEN tail_typed
            ELSE IF tail_typed.ty.ty = "List" THEN
                IF types_compatible(head_typed.ty, tail_typed.ty.element)
                THEN TOk(tail_typed.ty, tail_typed.errors)
                ELSE TErr(TypeMismatch(tail_typed.ty.element, head_typed.ty),
                          tail_typed.errors)
            ELSE TErr(TypeMismatch(TyList(TyUnknown), tail_typed.ty), tail_typed.errors)
      [] expr.t \in {"HeadProjection", "TailProjection"} ->
            LET list_typed == check_expression(expr.list, env, errors, d) IN
            IF ~list_typed.ok THEN list_typed
            ELSE IF list_typed.ty.ty = "List"
                THEN TOk(IF expr.t = "HeadProjection" THEN list_typed.ty.element
                         ELSE list_typed.ty,
                         list_typed.errors)
            ELSE TErr(TypeMismatch(TyList(TyUnknown), list_typed.ty), list_typed.errors)
      [] expr.t = "Print" ->
            LET typed_value == check_expression(expr.operand, env, errors, d)
            IN  IF ~typed_value.ok THEN typed_value
                ELSE TOk(TyUnit, typed_value.errors)
      [] expr.t = "For" ->
            LET iterable_typed == check_expression(expr.iterable, env, errors, d) IN
            IF ~iterable_typed.ok THEN iterable_typed
            ELSE IF iterable_typed.ty.ty # "List"
                THEN TErr(TypeMismatch(TyList(TyUnknown), iterable_typed.ty),
                          iterable_typed.errors)
            ELSE \* for_checker: child environment, its own error list
                 LET fenv == tenv_bind(with_parent(env), expr.variable,
                                       iterable_typed.ty.element)
                     body_typed == check_expression(expr.body, fenv, <<>>, d)
                 IN  IF ~body_typed.ok THEN TErr(body_typed.err, iterable_typed.errors)
                     ELSE TOk(TyUnit, iterable_typed.errors)
      [] expr.t = "Range" ->
            LET start_typed == check_expression(expr.start, env, errors, d) IN
            IF ~start_typed.ok THEN start_typed
            ELSE LET end_typed == check_expression(expr.end, env, start_typed.errors, d) IN
            IF ~end_typed.ok THEN end_typed
            ELSE IF start_typed.ty # TyInt
                THEN TErr(TypeMismatch(TyInt, start_typed.ty), end_typed.errors)
            ELSE IF end_typed.ty # TyInt
                THEN TErr(TypeMismatch(TyInt, end_typed.ty), end_typed.errors)
            ELSE TOk(TyList(TyInt), end_typed.errors)
      [] expr.t = "If" ->
            LET condition_typed == check_expression(expr.condition, env, errors, d) IN
            IF ~condition_typed.ok THEN condition_typed
            ELSE IF condition_typed.ty # TyBool
                THEN TErr(TypeMismatch(TyBool, condition_typed.ty), condition_typed.errors)
            ELSE LET then_typed == check_expression(expr.then_branch, env,
                                                    condition_typed.errors, d) IN
            IF ~then_typed.ok THEN then_typed
            ELSE IF expr.else_branch.t # "None" THEN
                LET else_typed == check_expression(expr.else_branch, env, then_typed.errors, d)
                IN  IF ~else_typed.ok THEN else_typed
                    ELSE IF /\ is_assignable_to(then_typed.ty, else_typed.ty)
                            /\ is_assignable_to(else_typed.ty, then_typed.ty)
                         THEN TOk(then_typed.ty, else_typed.errors)
                         ELSE TOk(TySum(then_typed.ty, else_typed.ty), else_typed.errors)
            ELSE IF then_typed.ty # TyUnit
                THEN TErr(TypeMismatch(TyUnit, then_typed.ty), then_typed.errors)
            ELSE TOk(TyUnit, then_typed.errors)

declare_variable_inferred(statement, env, typed_value) ==
    IF ~typed_value.ok THEN SErr(typed_value.err, env, typed_value.errors)
    ELSE SOk(tenv_bind(env, statement.name, typed_value.ty), typed_value.errors)

\* Statement::VariableDeclaration once the value is typed: the annotation,
\* if any, is converted, refined and compared, and the name is bound
declare_variable(statement, env, typed_value) ==
    IF ~typed_value.ok THEN SErr(typed_value.err, env, typed_value.errors)
    ELSE IF statement.type_annotation.te # "None" THEN
        LET conv == convert_type_expression(statement.type_annotation) IN
        IF ~conv.ok THEN SErr(conv.err, env, typed_value.errors)
        ELSE LET refined_type == refine_type_with_annotation(typed_value.ty, conv.ty)
             IN  IF ~types_compatible(conv.ty, refined_type)
                 THEN SErr(TypeMismatch(conv.ty, refined_type), env, typed_value.errors)
                 ELSE SOk(tenv_bind(env, statement.name, conv.ty), typed_value.errors)
    ELSE SOk(tenv_bind(env, statement.name, typed_value.ty), typed_value.errors)

\* Statement::FunctionDeclaration once the body is typed in the scope
\* `inner` that binds the parameter: a failed body returns with that scope
\* still current, a return-type mismatch after exit_scope, and success
\* binds the name after exit_scope
declare_function(statement, expected, ptype, inner, typed_body) ==
    IF ~typed_body.ok THEN SErr(typed_body.err, inner, typed_body.errors)
    ELSE IF /\ statement.return_type.te # "None"
            /\ ~types_compatible(expected.ty, typed_body.ty)
        THEN SErr(TypeMismatch(expected.ty, typed_body.ty), exit_scope(inner),
                  typed_body.errors)
    ELSE LET final_return_type == IF statement.return_type.te # "None"
                                  THEN expected.ty ELSE typed_body.ty
             function_type == TyFunction(ptype.ty, final_return_type)
         IN  SOk(tenv_bind(exit_scope(inner), statement.name, function_type),
                 typed_body.errors)

\* Statement::Expression once the expression is typed
expression_statement(env, typed_expr) ==
    IF typed_expr.ok THEN SOk(env, typed_expr.errors)
    ELSE SErr(typed_expr.err, env, typed_expr.errors)

check_statement(statement, env, errors, d) ==
    CASE statement.s = "VariableDeclaration" ->
            IF tenv_is_bound_locally(env, statement.name)
            THEN SErr(RedefinedVariable(statement.name), env, errors)
            ELSE declare_variable(statement, env,
                                  check_expression(statement.value, env, errors, d))
      [] statement.s = "FunctionDeclaration" ->
            IF tenv_is_bound_locally(env, statement.name)
            THEN SErr(RedefinedVariable(statement.name), env, errors)
            ELSE LET entered == enter_scope(env)
                     expected == IF statement.return_type.te # "None"
                                 THEN convert_type_expression(statement.return_type)
                                 ELSE COk(TyUnknown)
                 IN
            \* every `?` below returns with the entered scope still current
            IF ~expected.ok THEN SErr(expected.err, entered, errors)
            ELSE LET ptype == IF statement.param_type.te # "None"
                              THEN convert_type_expression(statement.param_type)
                              ELSE COk(TyUnknown) IN
            IF ~ptype.ok THEN SErr(ptype.err, entered, errors)
            ELSE LET inner == tenv_bind(entered, statement.param, ptype.ty)
                 IN  declare_function(statement, expected, ptype, inner,
                                      check_expression(statement.body, inner, errors, d))
      \* self.modules, which only QualifiedIdentifier reads, is not modelled
      [] statement.s = "Import" ->
            LET import_name == IF statement.alias.some THEN statement.alias.v
                               ELSE statement.path
                module_exports == load_and_check_module(statement.path, import_name, d)
            IN  IF module_exports.ok THEN SOk(env, errors)
                ELSE SErr(module_exports.err, env, errors)
      [] statement.s = "Expression" ->
            expression_statement(env, check_expression(statement.expression, env, errors, d))

\* TypeChecker { environment, errors } plus what check_program has returned
\* to its caller so far
NoTypeError == [e |-> "None"]

Running(env, errs) ==
    [environment |-> env, errors |-> errs, returned |-> "running", error |-> NoTypeError]

\* TypeChecker::new
TypeCheckerNew == Running(TEnvNew, <<>>)

\* the Err arm of the loop in check_program
on_statement_error_continue(er, env, errs) == Running(env, Append(errs, er))

on_statement_error(er, env, errs) ==
    [environment |-> env, errors |-> Append(errs, er), returned |-> "Err", error |-> er]

\* the match on the result of check_statement in the loop
on_statement_result(r) ==
    IF r.ok THEN Running(r.environment, r.errors)
    ELSE on_statement_error(r.err, r.environment, r.errors)

\* one iteration of `for statement in &program.statements`
check_program_step(chk, statement, d) ==
    on_statement_result(check_statement(statement, chk.environment, chk.errors, d))

\* the loop is over: Ok(TypedProgram)
check_program_end(chk) == [chk EXCEPT !.returned = "Ok"]

RECURSIVE check_program_from(_, _, _, _)
check_program_from(statements, i, chk, d) ==
    IF chk.returned # "running" THEN chk
    ELSE IF i > Len(statements) THEN check_program_end(chk)
    ELSE check_program_from(statements, i + 1, check_program_step(chk, statements[i], d), d)

check_program(program, chk, d) == check_program_from(program, 1, chk, d)

\* the result of checking the imported file, as load_and_check_module maps
\* it: the exports, or an ImportError
module_checked(path, chk) ==
    IF chk.returned = "Ok" THEN COk(get_all_bindings_types(chk.environment))
    ELSE IF chk.error.e = "StackExhausted" THEN CErr(chk.error)
    ELSE CErr(ImportError("Failed to type-check module", path))

\* TypeChecker::load_and_check_module: the file is read, tokenized, parsed
\* and checked by a TypeChecker::new()
load_and_check_module(path, module_name, d) ==
    LET content == read_to_string(path) IN
    IF ~content.some THEN CErr(ImportError("Failed to read module file", path))
    ELSE IF content.v.kind = "unlexable"
        THEN CErr(ImportError("Failed to tokenize module", path))
    ELSE IF content.v.kind = "unparsable"
        THEN CErr(ImportError("Failed to parse module", path))
    ELSE IF d < ImportFrames THEN CErr(CheckerStackExhausted)
    ELSE module_checked(path, check_program(content.v.program, TypeCheckerNew,
                                            d - ImportFrames))

----------------------------------------------------------------------------
(* Driver 3: one TypeChecker running check_program on a program whose      *)
(* statements are drawn one after the other from a corpus; each step is    *)
(* one iteration of the loop of check_program, the last one its return.    *)

MaxStmts == 3        \* statements of one checked program

NVar == Identifier("n")

CheckCorpus == <<
    \* let x = 1;
    VariableDeclaration("x", NoType, Number(1)),
    \* let x = true;
    VariableDeclaration("x", NoType, Boolean(TRUE)),
    \* fn u(p: Int) -> Int { y }
    FunctionDeclaration("u", "p", TInt, TInt, Block(<<>>, Identifier("y"))),
    \* fn x(p: Int) -> Int { p }
    FunctionDeclaration("x", "p", TInt, TInt, Block(<<>>, Identifier("p"))),
    \* let r = { let x = true; x };
    VariableDeclaration("r", NoType,
        Block(<<VariableDeclaration("x", NoType, Boolean(TRUE))>>, X)),
    \* fn k(p: Int) -> Bool { let x = true; x }
    FunctionDeclaration("k", "p", TInt, TBool,
        Block(<<VariableDeclaration("x", NoType, Boolean(TRUE))>>, X)),
    \* fn sq(n: Int) -> Int { n * n }
    FunctionDeclaration("sq", "n", TInt, TInt, Block(<<>>, BinaryOp(NVar, "Multiply", NVar))),
    \* fn fact(n: Int) -> Int { if n <= 1 { 1 } else { n * fact(n - 1) } }
    FunctionDeclaration("fact", "n", TInt, TInt,
        Block(<<>>, If(BinaryOp(NVar, "LessThanEqual", Number(1)),
                       Block(<<>>, Number(1)),
                       Block(<<>>, BinaryOp(NVar, "Multiply",
                           FunctionCall(Identifier("fact"),
                                        BinaryOp(NVar, "Subtract", Number(1)))))))),
    \* fn loop(n) { loop(n) }
    FunctionDeclaration("loop", "n", NoType, NoType,
        Block(<<>>, FunctionCall(Identifier("loop"), NVar))),
    \* let f = fix(5);
    VariableDeclaration("f", NoType, Fix(Number(5))),
    \* let b = y;
    VariableDeclaration("b", NoType, Identifier("y")),
    \* fn g(q: Int) -> Bool { q }
    FunctionDeclaration("g", "q", TInt, TBool, Block(<<>>, Identifier("q"))),
    \* let v: Bool = 1;
    VariableDeclaration("v", TBool, Number(1)),
    \* x + 1;
    ExpressionStmt(BinaryOp(X, "Add", Number(1))),
    \* let a: List Bool = [];
    VariableDeclaration("a", TList(TBool), List(<<>>)),
    \* let m: List Int = [true];
    VariableDeclaration("m", TList(TInt), List(<<Boolean(TRUE)>>)),
    \* let h: Int -> Int = fn(z) { z };
    VariableDeclaration("h", TFunction(TInt, TInt), Function("z", NoType, Identifier("z"))),
    \* let w: (Int, Bool) = (1, 2);
    VariableDeclaration("w", TPair(TInt, TBool), Pair(Number(1), Number(2)))
>>

IsDeclaration(stmt) == stmt.s \in {"VariableDeclaration", "FunctionDeclaration"}

NoHistory == [declared |-> <<>>, failed |-> 0]

InitChecker ==
    /\ mode = "checker"
    /\ checker = TypeCheckerNew
    /\ interp = Idle
    /\ out = <<>>
    /\ last = Idle
    /\ steps = 0
    /\ ghost = NoHistory
    /\ repl = Idle

\* what check_statement returned for statement i of the corpus, and the
\* environment it was called in
Checked(i, before, r) ==
    [op |-> "check_statement", stmt |-> i, ok |-> r.ok,
     err |-> IF r.ok THEN NoTypeError ELSE r.err, before |-> before]

\* check_program: the loop takes its next statement
CheckStatement ==
    /\ mode = "checker"
    /\ checker.returned = "running"
    /\ steps < MaxStmts
    /\ \E i \in 1..Len(CheckCorpus) :
          /\ checker' = check_program_step(checker, CheckCorpus[i], MaxCallDepth)
          /\ last' = Checked(i, checker.environment,
                             check_statement(CheckCorpus[i], checker.environment,
                                             checker.errors, MaxCallDepth))
          /\ ghost' = [declared |-> IF last'.ok /\ IsDeclaration(CheckCorpus[i])
                                    THEN Append(ghost.declared, CheckCorpus[i].name)
                                    ELSE ghost.declared,
                       failed |-> IF last'.ok THEN ghost.failed ELSE ghost.failed + 1]
    /\ steps' = steps + 1
    /\ UNCHANGED <<mode, interp, out, repl>>

\* check_program: the program has no more statements
CheckProgramEnd ==
    /\ mode = "checker"
    /\ checker.returned = "running"
    /\ checker' = check_program_end(checker)
    /\ last' = [op |-> "check_program_end"]
    /\ UNCHANGED <<mode, interp, out, steps, ghost, repl>>

NextChecker == CheckStatement \/ CheckProgramEnd

SpecChecker == InitChecker /\ [][NextChecker]_vars

LastStmt == CheckCorpus[last.stmt]

AfterCheckStatement == mode = "checker" /\ last.op = "check_statement"

\* the bindings of every scope of a type environment have a type other than Error
NoErrorBinding(env) ==
    \A i \in 1..Len(env) : \A nm \in DOMAIN env[i] : env[i][nm] # TyError

\* the type a declaration's annotation gives: Unknown when there is none
Annotated(type_expr) ==
    IF type_expr.te = "None" THEN TyUnknown ELSE convert_type_expression(type_expr).ty

\* C7: checking a function declaration binds the function's own name while
\* the body is checked, so a declaration (of a name not yet declared in the
\* scope) never fails with UndefinedVariable of its own name, and after a
\* successful check the name is bound in the enclosing scope to the function
\* type  parameter type -> result type.
C7_SelfNameBoundInBody ==
    (AfterCheckStatement /\ LastStmt.s = "FunctionDeclaration"
        /\ ~tenv_is_bound_locally(last.before, LastStmt.name)) =>
        /\ last.err # UndefinedVariable(LastStmt.name)
        /\ last.ok =>
              LET bound == tenv_lookup(checker.environment, LastStmt.name)
              IN  /\ Len(checker.environment) = Len(last.before)
                  /\ tenv_is_bound_locally(checker.environment, LastStmt.name)
                  /\ bound.v.ty = "Function"
                  /\ bound.v.param = Annotated(LastStmt.param_type)
                  /\ types_compatible(Annotated(LastStmt.return_type), bound.v.result)

\* C8: a let or fn declaration of a name already declared in the current
\* scope fails with RedefinedVariable and leaves the environment (so the
\* type of the existing binding) as it was; a declaration of the same name
\* inside a block ( let r = { let x = true; x }; ) or inside a function body
\* ( fn k(p: Int) -> Bool { let x = true; x } ) is accepted, the inner x
\* (Bool) is the one seen inside, and the outer x keeps its type.
C8_RedefinitionRejectedShadowingAllowed ==
    AfterCheckStatement =>
        /\ (IsDeclaration(LastStmt) /\ tenv_is_bound_locally(last.before, LastStmt.name)) =>
              /\ ~last.ok
              /\ last.err = RedefinedVariable(LastStmt.name)
              /\ checker.environment = last.before
        /\ (IsDeclaration(LastStmt) /\ LastStmt.name \in {"r", "k"}
              /\ ~tenv_is_bound_locally(last.before, LastStmt.name)) =>
              /\ last.ok
              /\ tenv_lookup(checker.environment, "x") = tenv_lookup(last.before, "x")
              /\ tenv_lookup(checker.environment, LastStmt.name) =
                    Some(IF LastStmt.name = "r" THEN TyBool ELSE TyFunction(TyInt, TyBool))

\* x: Int is declared, a block declared its own x: Bool, and a second
\* declaration of x in the program's scope has just been rejected
C8_Witness ==
    /\ AfterCheckStatement
    /\ IsDeclaration(LastStmt)
    /\ last.err = RedefinedVariable("x")
    /\ tenv_lookup(checker.environment, "x") = Some(TyInt)
    /\ tenv_lookup(checker.environment, "r") = Some(TyBool)

\* the names the program's scope binds are exactly the declared ones
DeclaredNames == {ghost.declared[i] : i \in 1..Len(ghost.declared)}

C10_ErrorTypeRejected ==
    (mode = "checker" /\ checker.returned = "Ok") =>
        /\ checker.errors = <<>>
        /\ NoErrorBinding(checker.environment)

\* the inferred type with every Unknown slot replaced by the slot the
\* annotation has at the same place
RECURSIVE FillUnknown(_, _)
FillUnknown(inferred, annotated) ==
    IF inferred = TyUnknown THEN annotated
    ELSE IF inferred.ty = "Function" /\ annotated.ty = "Function"
        THEN TyFunction(FillUnknown(inferred.param, annotated.param),
                        FillUnknown(inferred.result, annotated.result))
    ELSE IF inferred.ty = "List" /\ annotated.ty = "List"
        THEN TyList(FillUnknown(inferred.element, annotated.element))
    ELSE IF inferred.ty = "Pair" /\ annotated.ty = "Pair"
        THEN TyPair(FillUnknown(inferred.first, annotated.first),
                    FillUnknown(inferred.second, annotated.second))
    ELSE IF inferred.ty = "Sum" /\ annotated.ty = "Sum"
        THEN TySum(FillUnknown(inferred.left, annotated.left),
                   FillUnknown(inferred.right, annotated.right))
    ELSE inferred

\* the outcome of `let x: T = e` for the annotated type T and the result
\* typed_value of checking e
AnnotationDecides(annotated, typed_value) ==
    typed_value.ok =>
        IF types_compatible(FillUnknown(typed_value.ty, annotated), annotated)
        THEN /\ last.ok
             /\ tenv_is_bound_locally(checker.environment, LastStmt.name)
             /\ tenv_lookup(checker.environment, LastStmt.name) = Some(annotated)
        ELSE /\ ~last.ok
             /\ last.err.e = "TypeMismatch"
             /\ last.err.expected = annotated
             /\ checker.environment = last.before

\* C14: for `let x: T = e` (x not yet declared in the scope): when the
\* inferred type of e, with its Unknown slots filled from T, is compatible
\* with T, x is bound to the annotated type T; otherwise the checker returns
\* TypeMismatch with expected type T and the environment does not bind x.
C14_AnnotatedLetBindsAnnotation ==
    (AfterCheckStatement /\ LastStmt.s = "VariableDeclaration"
        /\ LastStmt.type_annotation.te # "None"
        /\ ~tenv_is_bound_locally(last.before, LastStmt.name)) =>
        AnnotationDecides(Annotated(LastStmt.type_annotation),
                          check_expression(LastStmt.value, last.before, <<>>, MaxCallDepth))

\* `let a: List Bool = [];` bound a to List Bool, and then
\* `let m: List Int = [true];` was rejected and m is not bound
C14_Witness ==
    /\ AfterCheckStatement
    /\ IsDeclaration(LastStmt)
    /\ LastStmt.name = "m"
    /\ last.err = TypeMismatch(TyList(TyInt), TyList(TyBool))
    /\ tenv_lookup(checker.environment, "a") = Some(TyList(TyBool))
    /\ ~tenv_lookup(checker.environment, "m").some

----------------------------------------------------------------------------
(* Tokenizer (lexer/tokenizer.rs)                                          *)
(*                                                                         *)
(* Characters are not modelled: the input is the sequence of its lexemes   *)
(* (maximal runs the tokenizer cuts), each with the class of its first     *)
(* character; white space and comments are skipped and so absent.  Spans   *)
(* are not modelled.                                                       *)

Word(s) == [c |-> "alpha", s |-> s]
Digits(n) == [c |-> "digit", n |-> n]
Symbol(s) == [c |-> "symbol", s |-> s]

Tok(kind) == [tok |-> kind]
TokIdentifier(s) == [tok |-> "Identifier", name |-> s]
TokNumber(n) == [tok |-> "Number", value |-> n]

parse_identifier_or_keyword(lexeme) ==
    IF lexeme.c # "alpha" THEN None
    ELSE CASE lexeme.s = "let" -> Some(Tok("Let"))
           [] lexeme.s = "Int" -> Some(Tok("Int"))
           [] lexeme.s = "Bool" -> Some(Tok("Bool"))
           [] lexeme.s = "List" -> Some(Tok("List"))
           [] lexeme.s = "Rec" -> Some(Tok("Rec"))
           [] lexeme.s = "fn" -> Some(Tok("Fn"))
           [] lexeme.s = "fix" -> Some(Tok("Fix"))
           [] lexeme.s = "fst" -> Some(Tok("Fst"))
           [] lexeme.s = "snd" -> Some(Tok("Snd"))
           [] lexeme.s = "cons" -> Some(Tok("Cons"))
           [] lexeme.s = "head" -> Some(Tok("Head"))
           [] lexeme.s = "tail" -> Some(Tok("Tail"))
           [] lexeme.s = "print" -> Some(Tok("Print"))
           [] lexeme.s = "if" -> Some(Tok("If"))
           [] lexeme.s = "else" -> Some(Tok("Else"))
           [] lexeme.s = "for" -> Some(Tok("For"))
           [] lexeme.s = "in" -> Some(Tok("In"))
           [] lexeme.s = "range" -> Some(Tok("Range"))
           [] lexeme.s = "inl" -> Some(Tok("Inl"))
           [] lexeme.s = "inr" -> Some(Tok("Inr"))
           [] lexeme.s = "case" -> Some(Tok("Case"))
           [] lexeme.s = "of" -> Some(Tok("Of"))
           [] lexeme.s = "true" -> Some(Tok("True"))
           [] lexeme.s = "false" -> Some(Tok("False"))
           [] OTHER -> Some(TokIdentifier(lexeme.s))

parse_number(lexeme) ==
    IF lexeme.c = "digit" THEN Some(TokNumber(lexeme.n)) ELSE None

parse_operators(lexeme) ==
    IF lexeme.c # "symbol" THEN None
    ELSE CASE lexeme.s = "=>" -> Some(Tok("FatArrow"))
           [] lexeme.s = "->" -> Some(Tok("Arrow"))
           [] lexeme.s = "==" -> Some(Tok("Equal"))
           [] lexeme.s = "!=" -> Some(Tok("NotEqual"))
           [] lexeme.s = "<=" -> Some(Tok("LessThanEqual"))
           [] lexeme.s = ">=" -> Some(Tok("GreaterThanEqual"))
           [] lexeme.s = "&&" -> Some(Tok("LogicalAnd"))
           [] lexeme.s = "||" -> Some(Tok("LogicalOr"))
           [] lexeme.s = "=" -> Some(Tok("Assign"))
           [] lexeme.s = "+" -> Some(Tok("Plus"))
           [] lexeme.s = "-" -> Some(Tok("Minus"))
           [] lexeme.s = "*" -> Some(Tok("Multiply"))
           [] lexeme.s = "/" -> Some(Tok("Divide"))
           [] lexeme.s = "<" -> Some(Tok("LessThan"))
           [] lexeme.s = ">" -> Some(Tok("GreaterThan"))
           [] lexeme.s = "!" -> Some(Tok("LogicalNot"))
           [] lexeme.s = "|" -> Some(Tok("Pipe"))
           [] OTHER -> None

parse_punctuation(lexeme) ==
    IF lexeme.c # "symbol" THEN None
    ELSE CASE lexeme.s = ";" -> Some(Tok("Semicolon"))
           [] lexeme.s = ":" -> Some(Tok("Colon"))
           [] lexeme.s = "(" -> Some(Tok("LeftParen"))
           [] lexeme.s = ")" -> Some(Tok("RightParen"))
           [] lexeme.s = "[" -> Some(Tok("LeftBracket"))
           [] lexeme.s = "]" -> Some(Tok("RightBracket"))
           [] lexeme.s = "{" -> Some(Tok("LeftBrace"))
           [] lexeme.s = "}" -> Some(Tok("RightBrace"))
           [] lexeme.s = "," -> Some(Tok("Comma"))
           [] OTHER -> None

\* alt((parse_operators, parse_identifier_or_keyword, parse_number,
\*      parse_punctuation))
parse_single_token(lexeme) ==
    OptOr(parse_operators(lexeme),
          OptOr(parse_identifier_or_keyword(lexeme),
                OptOr(parse_number(lexeme), parse_punctuation(lexeme))))

\* the loop stops at the first lexeme no parser accepts; Eof is appended
RECURSIVE parse_tokens(_, _, _)
parse_tokens(input, i, tokens) ==
    IF i > Len(input)
    THEN [remaining |-> <<>>, tokens |-> Append(tokens, Tok("Eof"))]
    ELSE LET token == parse_single_token(input[i])
         IN  IF token.some THEN parse_tokens(input, i + 1, Append(tokens, token.v))
             ELSE [remaining |-> SubSeq(input, i, Len(input)),
                   tokens |-> Append(tokens, Tok("Eof"))]

tokenize(input) ==
    LET parsed == parse_tokens(input, 1, <<>>)
    IN  IF parsed.remaining = <<>> THEN [ok |-> TRUE, tokens |-> parsed.tokens]
        ELSE [ok |-> FALSE, err |-> [e |-> "ParseError", remaining |-> parsed.remaining]]

----------------------------------------------------------------------------
(* Parser (ast/parser.rs)                                                  *)
(*                                                                         *)
(* Every parsing operator takes the token vector and self.current (an      *)
(* index from 0, so that the token at self.current is tokens[current + 1]) *)
(* and returns the node parsed with the new self.current, or the error.    *)

POk(node, current) == [ok |-> TRUE, node |-> node, current |-> current]
UnexpectedToken(expected, found) ==
    [ok |-> FALSE, err |-> [e |-> "UnexpectedToken", expected |-> expected, found |-> found]]

peek(tokens, current) == tokens[current + 1]

is_at_end(tokens, current) ==
    current >= Len(tokens) \/ peek(tokens, current).tok = "Eof"

previous(tokens, current) == tokens[current]

\* self.current after advance(); the token it returns is previous()
advance(tokens, current) ==
    IF ~is_at_end(tokens, current) THEN current + 1 ELSE current

check(tokens, current, kind) ==
    IF is_at_end(tokens, current) THEN FALSE ELSE peek(tokens, current).tok = kind

consume(tokens, current, kind, message) ==
    IF check(tokens, current, kind)
    THEN POk(previous(tokens, advance(tokens, current)), advance(tokens, current))
    ELSE UnexpectedToken(message, peek(tokens, current))

get_binary_operator(token) ==
    CASE token.tok = "Plus" -> Some([precedence |-> 10, operator |-> "Add"])
      [] token.tok = "Minus" -> Some([precedence |-> 10, operator |-> "Subtract"])
      [] token.tok = "Multiply" -> Some([precedence |-> 20, operator |-> "Multiply"])
      [] token.tok = "Divide" -> Some([precedence |-> 20, operator |-> "Divide"])
      [] token.tok = "Equal" -> Some([precedence |-> 5, operator |-> "Equal"])
      [] token.tok = "NotEqual" -> Some([precedence |-> 5, operator |-> "NotEqual"])
      [] token.tok = "LessThan" -> Some([precedence |-> 5, operator |-> "LessThan"])
      [] token.tok = "LessThanEqual" -> Some([precedence |-> 5, operator |-> "LessThanEqual"])
      [] token.tok = "GreaterThan" -> Some([precedence |-> 5, operator |-> "GreaterThan"])
      [] token.tok = "GreaterThanEqual" ->
            Some([precedence |-> 5, operator |-> "GreaterThanEqual"])
      [] token.tok = "LogicalAnd" -> Some([precedence |-> 3, operator |-> "LogicalAnd"])
      [] token.tok = "LogicalOr" -> Some([precedence |-> 2, operator |-> "LogicalOr"])
      [] OTHER -> None

RECURSIVE parse_function_type(_, _)
RECURSIVE parse_primary_type(_, _)
RECURSIVE function_type_loop(_, _)

\* TypeExpression::List and TypeExpression::Recursive around a parsed type
wrap_type(kind, inner) ==
    IF ~inner.ok THEN inner
    ELSE POk(IF kind = "List" THEN TList(inner.node) ELSE TRecursive(inner.node),
             inner.current)

\* '(' T1 ',' T2 ')' once both types are parsed
pair_type_end(tokens, first, second) ==
    IF ~second.ok THEN second
    ELSE LET closed == consume(tokens, second.current, "RightParen", "Expected ')')")
         IN  IF ~closed.ok THEN closed
             ELSE POk(TPair(first.node, second.node), closed.current)

\* '(' T ... once the first type is parsed: a pair type or a parenthesized type
paren_type_first(tokens, first) ==
    IF ~first.ok THEN first
    ELSE IF peek(tokens, first.current).tok = "Comma"
        THEN pair_type_end(tokens, first,
                           parse_function_type(tokens, advance(tokens, first.current)))
    ELSE LET closed == consume(tokens, first.current, "RightParen", "Expected ')')")
         IN  IF ~closed.ok THEN closed ELSE POk(first.node, closed.current)

parse_primary_type(tokens, current) ==
    LET cur == advance(tokens, current)
        token == previous(tokens, cur)
    IN  CASE token.tok = "Int" -> POk(TInt, cur)
          [] token.tok = "Bool" -> POk(TBool, cur)
          [] token.tok = "List" -> wrap_type("List", parse_function_type(tokens, cur))
          [] token.tok = "Rec" -> wrap_type("Recursive", parse_function_type(tokens, cur))
          [] token.tok = "Identifier" -> POk(TNamed(token.name), cur)
          [] token.tok = "LeftParen" ->
                paren_type_first(tokens, parse_function_type(tokens, cur))
          [] OTHER -> UnexpectedToken("type expression", token)

\* left = TypeExpression::Function { param: left, result: right }
arrow_type(left, right) ==
    IF ~right.ok THEN right ELSE POk(TFunction(left.node, right.node), right.current)

\* the loop `while self.peek().token == Token::Arrow`
function_type_loop(tokens, left) ==
    IF ~left.ok THEN left
    ELSE IF peek(tokens, left.current).tok = "Arrow"
        THEN function_type_loop(tokens,
                 arrow_type(left, parse_primary_type(tokens, advance(tokens, left.current))))
    ELSE left

parse_function_type(tokens, current) ==
    function_type_loop(tokens, parse_primary_type(tokens, current))

parse_type_expression(tokens, current) == parse_function_type(tokens, current)

RECURSIVE parse_binary_expression(_, _, _)
RECURSIVE binary_operator_loop(_, _, _)
RECURSIVE parse_primary(_, _)

parse_expression(tokens, current) == parse_binary_expression(tokens, current, 0)

\* fn ( param ) { body } once the body is parsed.  The parser of this
\* snapshot builds Expression::Function without a parameter type: None.
function_expression_end(tokens, param, body) ==
    IF ~body.ok THEN body
    ELSE LET closed == consume(tokens, body.current, "RightBrace",
                               "Expected '}' to end function body")
         IN  IF ~closed.ok THEN closed
             ELSE POk(Function(param, NoType, body.node), closed.current)

\* called with self.current just after `fn`
parse_function_expression(tokens, current) ==
    LET opened == consume(tokens, current, "LeftParen", "Expected '(' after 'fn'") IN
    IF ~opened.ok THEN opened
    ELSE LET named == advance(tokens, opened.current)
             param == previous(tokens, named)
         IN
    IF param.tok # "Identifier" THEN UnexpectedToken("parameter name", param)
    ELSE LET closed == consume(tokens, named, "RightParen", "Expected ')' after parameter") IN
    IF ~closed.ok THEN closed
    ELSE LET braced == consume(tokens, closed.current, "LeftBrace",
                               "Expected '{' to start function body") IN
    IF ~braced.ok THEN braced
    ELSE function_expression_end(tokens, param.name,
                                 parse_expression(tokens, braced.current))

\* ( first , second ) once the second expression is parsed
pair_expression_end(tokens, first, second) ==
    IF ~second.ok THEN second
    ELSE LET closed == consume(tokens, second.current, "RightParen",
                               "Expected ')' after pair")
         IN  IF ~closed.ok THEN closed
             ELSE POk(Pair(first.node, second.node), closed.current)

\* ( first ... once the first expression is parsed
parenthesized_or_pair_first(tokens, first) ==
    IF ~first.ok THEN first
    ELSE IF peek(tokens, first.current).tok = "Comma"
        THEN pair_expression_end(tokens, first,
                                 parse_expression(tokens, advance(tokens, first.current)))
    ELSE LET closed == consume(tokens, first.current, "RightParen", "Expected ')'")
         IN  IF ~closed.ok THEN closed ELSE POk(first.node, closed.current)

\* called with self.current just after `(`
parse_parenthesized_or_pair_expression(tokens, current) ==
    parenthesized_or_pair_first(tokens, parse_expression(tokens, current))

parse_primary(tokens, current) ==
    LET cur == advance(tokens, current)
        token == previous(tokens, cur)
    IN  CASE token.tok = "Number" -> POk(Number(token.value), cur)
          [] token.tok = "True" -> POk(Boolean(TRUE), cur)
          [] token.tok = "False" -> POk(Boolean(FALSE), cur)
          [] token.tok = "Identifier" -> POk(Identifier(token.name), cur)
          [] token.tok = "Fn" -> parse_function_expression(tokens, cur)
          [] token.tok = "LeftParen" -> parse_parenthesized_or_pair_expression(tokens, cur)
          [] OTHER -> UnexpectedToken("expression", token)

\* left = Expression::BinaryOp { left, operator, right }
binary_expression(left, operator, right) ==
    IF ~right.ok THEN right
    ELSE POk(BinaryOp(left.node, operator, right.node), right.current)

binary_operator_loop_right(tokens, min_precedence, left) ==
    IF ~left.ok THEN left
    ELSE IF is_at_end(tokens, left.current) THEN left
    ELSE LET found == get_binary_operator(peek(tokens, left.current)) IN
         IF ~found.some THEN left
         ELSE IF found.v.precedence < min_precedence THEN left
         ELSE binary_operator_loop(tokens, min_precedence,
                  binary_expression(left, found.v.operator,
                      parse_binary_expression(tokens, advance(tokens, left.current),
                                              found.v.precedence)))

\* the loop `while !self.is_at_end()` of parse_binary_expression
binary_operator_loop(tokens, min_precedence, left) ==
    IF ~left.ok THEN left
    ELSE IF is_at_end(tokens, left.current) THEN left
    ELSE LET found == get_binary_operator(peek(tokens, left.current)) IN
         IF ~found.some THEN left
         ELSE IF found.v.precedence < min_precedence THEN left
         ELSE binary_operator_loop(tokens, min_precedence,
                  binary_expression(left, found.v.operator,
                      parse_binary_expression(tokens, advance(tokens, left.current),
                                              found.v.precedence + 1)))

parse_binary_expression(tokens, current, min_precedence) ==
    binary_operator_loop(tokens, min_precedence, parse_primary(tokens, current))

\* expression ; once the expression is parsed
expression_statement_end(tokens, expression) ==
    IF ~expression.ok THEN expression
    ELSE LET ended == consume(tokens, expression.current, "Semicolon", "Expected ';'")
         IN  IF ~ended.ok THEN ended
             ELSE POk(ExpressionStmt(expression.node), ended.current)

parse_expression_statement(tokens, current) ==
    expression_statement_end(tokens, parse_expression(tokens, current))

\* let name [: type] = value ; once the value is parsed
variable_declaration_end(tokens, name, type_annotation, value) ==
    IF ~value.ok THEN value
    ELSE LET ended == consume(tokens, value.current, "Semicolon", "Expected ';'")
         IN  IF ~ended.ok THEN ended
             ELSE POk(VariableDeclaration(name, type_annotation, value.node), ended.current)

\* let name [: type] once the optional annotation is parsed
variable_declaration_value(tokens, name, type_annotation) ==
    IF ~type_annotation.ok THEN type_annotation
    ELSE LET assigned == consume(tokens, type_annotation.current, "Assign", "Expected '='")
         IN  IF ~assigned.ok THEN assigned
             ELSE variable_declaration_end(tokens, name, type_annotation.node,
                                           parse_expression(tokens, assigned.current))

parse_variable_declaration(tokens, current) ==
    LET let_token == consume(tokens, current, "Let", "Expected 'let'") IN
    IF ~let_token.ok THEN let_token
    ELSE LET named == advance(tokens, let_token.current)
             name == previous(tokens, named)
         IN
    IF name.tok # "Identifier" THEN UnexpectedToken("identifier", name)
    ELSE variable_declaration_value(tokens, name.name,
             IF peek(tokens, named).tok = "Colon"
             THEN parse_type_expression(tokens, advance(tokens, named))
             ELSE POk(NoType, named))

parse_statement(tokens, current) ==
    IF peek(tokens, current).tok = "Let"
    THEN parse_variable_declaration(tokens, current)
    ELSE parse_expression_statement(tokens, current)

RECURSIVE parse_statements(_, _, _)

\* statements.push(self.parse_statement()?)
push_statement(tokens, statements, statement) ==
    IF ~statement.ok THEN statement
    ELSE parse_statements(tokens, Append(statements, statement.node), statement.current)

\* the loop `while !self.is_at_end()` of parse
parse_statements(tokens, statements, current) ==
    IF is_at_end(tokens, current) THEN POk(statements, current)
    ELSE push_statement(tokens, statements, parse_statement(tokens, current))

\* Parser::new(tokens).parse(): the statements of the Program, or the error
parse(tokens) == parse_statements(tokens, <<>>, 0)

----------------------------------------------------------------------------
(* Driver 4: the REPL (repl/mod.rs) and the batch run of one file          *)
(* (main.rs).  A source unit - a line typed at the prompt, a file given to *)
(* :load, or the file of a batch run - goes through process_content, one   *)
(* stage per step; the REPL's interpreter lives across units, the type     *)
(* checker is built anew for each unit.                                    *)

MaxUnits == 2        \* source units read in one session

Units == <<
    \* let x = 1;
    <<Word("let"), Word("x"), Symbol("="), Digits(1), Symbol(";")>>,
    \* let x = 5; let y = 1 / 0;
    <<Word("let"), Word("x"), Symbol("="), Digits(5), Symbol(";"),
      Word("let"), Word("y"), Symbol("="), Digits(1), Symbol("/"), Digits(0), Symbol(";")>>,
    \* let y = x;
    <<Word("let"), Word("y"), Symbol("="), Word("x"), Symbol(";")>>,
    \* let z = 1 + ;
    <<Word("let"), Word("z"), Symbol("="), Digits(1), Symbol("+"), Symbol(";")>>,
    \* let w = 2 @ 3;
    <<Word("let"), Word("w"), Symbol("="), Digits(2), Symbol("@"), Digits(3), Symbol(";")>>,
    \* let p = (1 + 2 * 3, true);
    <<Word("let"), Word("p"), Symbol("="), Symbol("("), Digits(1), Symbol("+"), Digits(2),
      Symbol("*"), Digits(3), Symbol(","), Word("true"), Symbol(")"), Symbol(";")>>,
    \* let b: Bool = 1 < 2;
    <<Word("let"), Word("b"), Symbol(":"), Word("Bool"), Symbol("="), Digits(1),
      Symbol("<"), Digits(2), Symbol(";")>>,
    \* 1 / 0;
    <<Digits(1), Symbol("/"), Digits(0), Symbol(";")>>,
    \* let f = fn(a) { a + 1 };
    <<Word("let"), Word("f"), Symbol("="), Word("fn"), Symbol("("), Word("a"), Symbol(")"),
      Symbol("{"), Word("a"), Symbol("+"), Digits(1), Symbol("}"), Symbol(";")>>,
    \* let y = 2; let t = true + 1;
    <<Word("let"), Word("y"), Symbol("="), Digits(2), Symbol(";"),
      Word("let"), Word("t"), Symbol("="), Word("true"), Symbol("+"), Digits(1), Symbol(";")>>,
    \* let n: Int = true;
    <<Word("let"), Word("n"), Symbol(":"), Word("Int"), Symbol("="), Word("true"), Symbol(";")>>
>>

\* Repl::new (batch = FALSE) or the start of load_and_execute_file
\* (batch = TRUE): at the prompt, no unit taken up yet
ReplNew(batch) ==
    [batch |-> batch, stage |-> "prompt", via |-> "none", content |-> <<>>,
     tokens |-> <<>>, program |-> <<>>, stages |-> <<>>, before |-> EnvNew]

\* where control is once the processing of a unit has returned: back at the
\* prompt of the REPL's loop, or out of main
returned(r) == IF r.batch THEN "exit" ELSE "prompt"

\* the `?` after tokenize and after parse
result_failed(r) == ~r.ok

\* the `?` after check_program: Err returns from process_content
type_check_failed_never(chk) == FALSE

type_check_failed(chk) == chk.returned = "Err"

\* a stage has run on the unit: its name and outcome join the unit's record
StageRan(r, stage, ok, next) ==
    [r EXCEPT !.stages = Append(r.stages, [stage |-> stage, ok |-> ok]),
              !.stage = next]

InitRepl ==
    /\ mode = "repl"
    /\ repl \in {ReplNew(batch) : batch \in BOOLEAN}
    /\ interp = EnvNew
    /\ out = <<>>
    /\ last = Idle
    /\ steps = 0
    /\ ghost = Idle
    /\ checker = Idle

\* a line is read at the prompt (a plain line or `:load <file>`), or the
\* file of a batch run is read
ReadUnit ==
    /\ mode = "repl"
    /\ repl.stage = "prompt"
    /\ steps < MaxUnits
    /\ \E i \in 1..Len(Units) :
       \E via \in IF repl.batch THEN {"file"} ELSE {"line", "load"} :
          repl' = [repl EXCEPT !.stage = "tokenize", !.via = via, !.content = Units[i],
                               !.tokens = <<>>, !.program = <<>>, !.stages = <<>>,
                               !.before = interp]
    /\ steps' = steps + 1
    /\ last' = [op |-> "read"]
    /\ UNCHANGED <<mode, interp, out, ghost, checker>>

\* Step 1: tokenizer.tokenize(content)?
Tokenize ==
    /\ mode = "repl"
    /\ repl.stage = "tokenize"
    /\ \E r \in {tokenize(repl.content)} :
          /\ repl' = IF result_failed(r)
                     THEN StageRan(repl, "tokenize", r.ok, returned(repl))
                     ELSE [StageRan(repl, "tokenize", r.ok, "parse")
                              EXCEPT !.tokens = r.tokens]
          /\ last' = [op |-> "tokenize", ok |-> r.ok]
    /\ UNCHANGED <<mode, interp, out, steps, ghost, checker>>

\* Step 2: Parser::new(tokens).parse()?
Parse ==
    /\ mode = "repl"
    /\ repl.stage = "parse"
    /\ \E r \in {parse(repl.tokens)} :
          /\ repl' = IF result_failed(r)
                     THEN StageRan(repl, "parse", r.ok, returned(repl))
                     ELSE [StageRan(repl, "parse", r.ok, "check")
                              EXCEPT !.program = r.node]
          /\ last' = [op |-> "parse", ok |-> r.ok]
    /\ UNCHANGED <<mode, interp, out, steps, ghost, checker>>

\* Step 3: TypeChecker::new().check_program(&program)?
TypeCheck ==
    /\ mode = "repl"
    /\ repl.stage = "check"
    /\ \E chk \in {check_program(repl.program, TypeCheckerNew, MaxCallDepth)} :
          /\ checker' = chk
          /\ repl' = StageRan(repl, "check", chk.returned = "Ok",
                              IF type_check_failed(chk) THEN returned(repl)
                              ELSE "evaluate")
          /\ last' = [op |-> "check", ok |-> chk.returned = "Ok"]
    /\ UNCHANGED <<mode, interp, out, steps, ghost>>

\* Step 4: interpreter.interpret_program(&program)?, on the REPL's own
\* interpreter or on the Interpreter::new() of the batch run
Evaluate ==
    /\ mode = "repl"
    /\ repl.stage = "evaluate"
    /\ \E r \in {interpret_program(repl.program, interp, out, MaxCallDepth)} :
          /\ interp' = r.env
          /\ out' = r.out
          /\ repl' = StageRan(repl, "evaluate", ~IsErr(r.v), returned(repl))
          /\ last' = [op |-> "evaluate", ok |-> ~IsErr(r.v)]
    /\ UNCHANGED <<mode, steps, ghost, checker>>

\* `exit` or `quit` at the prompt
Quit ==
    /\ mode = "repl"
    /\ ~repl.batch
    /\ repl.stage = "prompt"
    /\ repl' = [repl EXCEPT !.stage = "exit"]
    /\ last' = [op |-> "quit"]
    /\ UNCHANGED <<mode, interp, out, steps, ghost, checker>>

NextRepl == ReadUnit \/ Tokenize \/ Parse \/ TypeCheck \/ Evaluate \/ Quit

SpecRepl == InitRepl /\ [][NextRepl]_vars

StageOrder == <<"tokenize", "parse", "check", "evaluate">>

StageOps == {StageOrder[k] : k \in 1..Len(StageOrder)}

\* C1: the stages a unit has gone through are tokenize, parse, check,
\* evaluate in this order, each one run only after the one before it
\* succeeded (the stage about to run is the one after the last one run),
\* and as long as evaluate has not run - so whenever the unit failed to lex,
\* parse or type-check - the interpreter's environment and the output are
\* what they were when the unit was taken up.
C1_StagesInOrder ==
    mode = "repl" =>
        LET ran == repl.stages IN
        /\ Len(ran) <= Len(StageOrder)
        /\ \A k \in 1..Len(ran) : ran[k].stage = StageOrder[k]
        /\ \A k \in 1..(Len(ran) - 1) : ran[k].ok
        /\ repl.stage \in StageOps =>
              /\ repl.stage = StageOrder[Len(ran) + 1]
              /\ \A k \in 1..Len(ran) : ran[k].ok
        /\ Len(ran) < Len(StageOrder) => (interp = repl.before /\ out = <<>>)

\* a REPL session holds x = 1, and a unit of two statements whose second
\* one is ill-typed was stopped after the type check: its first statement
\* ( let y = 2; ) was not evaluated
C1_Witness ==
    /\ mode = "repl"
    /\ ~repl.batch
    /\ repl.stage = "prompt"
    /\ Len(repl.stages) = Len(StageOrder) - 1
    /\ ~repl.stages[Len(repl.stages)].ok
    /\ Len(repl.program) > 1
    /\ lookup(interp, "x") = Some(IntV(1))
    /\ lookup(interp, "y") = None

ReplNames == {"x", "y", "z", "w", "p", "b", "f", "t", "n"}

\* C2: in the REPL, when a stage has just failed on a line the session is
\* back at the prompt and every binding the interpreter's environment held
\* when the line was taken up is still there with the same value.
C2_FailedLineKeepsBindings ==
    (mode = "repl" /\ ~repl.batch /\ last.op \in StageOps /\ ~last.ok) =>
        /\ repl.stage = "prompt"
        /\ \A nm \in ReplNames :
              lookup(repl.before, nm).some => lookup(interp, nm) = lookup(repl.before, nm)

----------------------------------------------------------------------------
(* Driver 5: the file runner (main.rs, load_and_execute_file) from the     *)
(* parsed program on: a fresh TypeChecker checks the whole program and,    *)
(* only if it returned Ok, a fresh Interpreter evaluates it.  The programs *)
(* are syntax trees, as the unit tests of the checker and of the           *)
(* interpreter build them.                                                 *)

Let(nm, e) == VariableDeclaration(nm, NoType, e)

\* { print(n); e }
Noisy(n, e) == Block(<<ExpressionStmt(PrintE(Number(n)))>>, e)

\* let id = fn(x) { x };
LetId == Let("id", Function("x", NoType, X))

IdOf(e) == FunctionCall(Identifier("id"), e)

\* programs around values whose static type is Unknown
GradualPrograms == {
    \* let id = fn(x) { x }; let s = id(true) + 1;
    <<LetId, Let("s", BinaryOp(IdOf(Boolean(TRUE)), "Add", Number(1)))>>,
    \* let id = fn(x) { x }; let s = id(2) + 1;
    <<LetId, Let("s", BinaryOp(IdOf(Number(2)), "Add", Number(1)))>>,
    \* let id = fn(x) { x }; let c = id(true) < 1;
    <<LetId, Let("c", BinaryOp(IdOf(Boolean(TRUE)), "LessThan", Number(1)))>>,
    \* let id = fn(x) { x }; let p: (Int, Int) = id(1); let a = fst(p);
    <<LetId, VariableDeclaration("p", TPair(TInt, TInt), IdOf(Number(1))),
      Let("a", FirstProjection(Identifier("p")))>>,
    \* let id = fn(x) { x }; let c: Bool = id(1); let r = if c { 1 } else { 2 };
    <<LetId, VariableDeclaration("c", TBool, IdOf(Number(1))),
      Let("r", If(Identifier("c"), Block(<<>>, Number(1)), Block(<<>>, Number(2))))>>,
    \* let p = (1, true); let a = fst(p) + 1; let r = if snd(p) { a } else { 0 };
    <<Let("p", Pair(Number(1), Boolean(TRUE))),
      Let("a", BinaryOp(FirstProjection(Identifier("p")), "Add", Number(1))),
      Let("r", If(SecondProjection(Identifier("p")), Block(<<>>, Identifier("a")),
                  Block(<<>>, Number(0))))>>,
    \* let s = true + 1;
    <<Let("s", BinaryOp(Boolean(TRUE), "Add", Number(1)))>>,
    \* let a = fst(1);
    <<Let("a", FirstProjection(Number(1)))>>,
    \* let r = if 1 { 1 } else { 2 };
    <<Let("r", If(Number(1), Block(<<>>, Number(1)), Block(<<>>, Number(2))))>>
}

\* Int operands of a division: the ends of the range and values around zero
DivOperands == {IntMin, IntMin + 1, -7, -2, -1, 0, 1, 2, 7, IntMax - 1, IntMax}

\* let q = { print(1); l } / { print(2); r };
DivProgram(l, r) ==
    <<Let("q", BinaryOp(Noisy(1, Number(l)), "Divide", Noisy(2, Number(r))))>>

DivPrograms == {DivProgram(l, r) : l \in DivOperands, r \in DivOperands}

RangeOperands == (-MaxN)..MaxN

\* let r = range(a, b);
RangeProgram(a, b) == <<Let("r", Range(Number(a), Number(b)))>>

RangePrograms == {RangeProgram(a, b) : a \in RangeOperands, b \in RangeOperands}

\* literals with the value each evaluates to
Lit(e, v) == [expr |-> e, value |-> v]

ConsHeads == {
    Lit(Number(7), IntV(7)),
    Lit(Boolean(TRUE), BoolV(TRUE)),
    Lit(Pair(Number(1), Boolean(FALSE)), PairV(IntV(1), BoolV(FALSE))),
    Lit(List(<<Number(3)>>), ListV(<<IntV(3)>>))
}

ConsLists == {
    Lit(List(<<>>), ListV(<<>>)),
    Lit(List(<<Number(1)>>), ListV(<<IntV(1)>>)),
    Lit(List(<<Number(1), Number(2)>>), ListV(<<IntV(1), IntV(2)>>)),
    Lit(List(<<Number(2), Number(1), Number(2)>>), ListV(<<IntV(2), IntV(1), IntV(2)>>)),
    Lit(List(<<Boolean(FALSE)>>), ListV(<<BoolV(FALSE)>>)),
    Lit(List(<<List(<<Number(4)>>)>>), ListV(<<ListV(<<IntV(4)>>)>>))
}

\* let xs = <list>; let ys = cons(<head>, xs); let h = head(ys); let t = tail(ys);
ConsProgram(head, list) ==
    <<Let("xs", list), Let("ys", Cons(head, Identifier("xs"))),
      Let("h", HeadProjection(Identifier("ys"))),
      Let("t", TailProjection(Identifier("ys")))>>

ConsPrograms == {ConsProgram(h.expr, l.expr) : h \in ConsHeads, l \in ConsLists}

\* let x = 1; let h = head([]);     and the same with tail, and with the
\* empty list held by a variable
EmptyListPrograms == {
    <<Let("x", Number(1)), Let("h", HeadProjection(List(<<>>)))>>,
    <<Let("x", Number(1)), Let("h", TailProjection(List(<<>>)))>>,
    <<Let("x", Number(1)), Let("e", List(<<>>)), Let("h", HeadProjection(Identifier("e")))>>,
    <<Let("x", Number(1)), Let("e", List(<<>>)), Let("h", TailProjection(Identifier("e")))>>,
    <<Let("x", Number(1)), Let("h", HeadProjection(TailProjection(List(<<Number(1)>>))))>>
}

ForElements == {0, 1, 2, 5}
MaxForLen == 3       \* elements of the list a for loop runs over

ForLists == UNION {[1..n -> ForElements] : n \in 0..MaxForLen}

NumberList(ns) == List([i \in 1..Len(ns) |-> Number(ns[i])])

\* let u = for x in { print(100); [ns] } { print(10 / x); x };
ForProgram(ns) ==
    <<Let("u", For("x", Noisy(100, NumberList(ns)),
                   Block(<<ExpressionStmt(PrintE(BinaryOp(Number(10), "Divide", X)))>>, X)))>>

ForPrograms == {ForProgram(ns) : ns \in ForLists}

\* what the i-th statement of a program does: bind v<i>, fail while
\* computing the value of v<i>, print, or fail as an expression statement
StepKinds == {"let", "div0", "print", "head"}

\* the name the i-th statement binds
StepNames == <<"v1", "v2", "v3">>

StepName(i) == StepNames[i]

\* let v<i> = { print(i); i };          let v<i> = { print(i); i / 0 };
\* print(i);                            head({ print(i); [] });
Step(i, kind) ==
    CASE kind = "let" -> Let(StepName(i), Noisy(i, Number(i)))
      [] kind = "div0" ->
            Let(StepName(i), Noisy(i, BinaryOp(Number(i), "Divide", Number(0))))
      [] kind = "print" -> ExpressionStmt(PrintE(Number(i)))
      [] kind = "head" -> ExpressionStmt(HeadProjection(Noisy(i, List(<<>>))))

StepProgram(kinds) == [i \in 1..Len(kinds) |-> Step(i, kinds[i])]

StepKindLists == UNION {[1..n -> StepKinds] : n \in 1..Len(StepNames)}

StepPrograms == {StepProgram(kinds) : kinds \in StepKindLists}

\* the files a program of imports names: three that type-check (one of
\* them fails at run time), one that does not, and the two cycles
ProgramPaths == {"lib.cor", "noisy.cor", "crash.cor", "peek.cor", "self.cor", "ping.cor"}

PathLists == UNION {[1..n -> ProgramPaths] : n \in 1..MaxUnits}

\* import "p1"; import "p2"; ...
ImportProgram(paths) == [i \in 1..Len(paths) |-> Import(paths[i], None)]

ImportPrograms == {ImportProgram(paths) : paths \in PathLists}

\* what an operand of && or || does after printing: yield true, yield
\* false, or fail with a division by zero
OperandKinds == {"true", "false", "fail"}

\* { print(n); true }     { print(n); false }     { print(n); 1 / 0 == 0 }
Operand(n, kind) ==
    Noisy(n, CASE kind = "true" -> Boolean(TRUE)
               [] kind = "false" -> Boolean(FALSE)
               [] kind = "fail" ->
                     BinaryOp(BinaryOp(Number(1), "Divide", Number(0)), "Equal", Number(0)))

\* let r = <left> && <right>;      let r = <left> || <right>;
LogicProgram(l, op, r) == <<Let("r", BinaryOp(Operand(1, l), op, Operand(2, r)))>>

LogicPrograms ==
    {LogicProgram(l, op, r) :
        l \in OperandKinds, op \in {"LogicalAnd", "LogicalOr"}, r \in OperandKinds}

TypedPrograms ==
    LogicPrograms \cup GradualPrograms \cup DivPrograms \cup RangePrograms \cup ConsPrograms
        \cup EmptyListPrograms \cup ForPrograms \cup StepPrograms
        \cup ImportPrograms

\* the run of one file: the program and the stage the runner is at
FileRun(program, stage) == [program |-> program, stage |-> stage]

InitTyped ==
    /\ mode = "typed"
    /\ repl \in {FileRun(program, "check") : program \in TypedPrograms}
    /\ checker = TypeCheckerNew
    /\ interp = EnvNew
    /\ out = <<>>
    /\ last = Idle
    /\ steps = 0
    /\ ghost = Idle

\* TypeChecker::new().check_program(&program), with `?`
TypeCheckProgram ==
    /\ mode = "typed"
    /\ repl.stage = "check"
    /\ \E chk \in {check_program(repl.program, TypeCheckerNew, MaxCallDepth)} :
          /\ checker' = chk
          /\ repl' = FileRun(repl.program,
                             IF type_check_failed(chk) THEN "exit" ELSE "evaluate")
          /\ last' = [op |-> "check", ok |-> ~type_check_failed(chk), v |-> UnitV]
    /\ steps' = steps + 1
    /\ UNCHANGED <<mode, interp, out, ghost>>

\* Interpreter::new().interpret_program(&program), with `?`
EvaluateProgram ==
    /\ mode = "typed"
    /\ repl.stage = "evaluate"
    /\ \E r \in {interpret_program(repl.program, interp, out, MaxCallDepth)} :
          /\ interp' = r.env
          /\ out' = r.out
          /\ last' = [op |-> "evaluate", ok |-> ~IsErr(r.v), v |-> r.v]
    /\ repl' = FileRun(repl.program, "exit")
    /\ steps' = steps + 1
    /\ UNCHANGED <<mode, checker, ghost>>

NextTyped == TypeCheckProgram \/ EvaluateProgram

SpecTyped == InitTyped /\ [][NextTyped]_vars

Evaluated == mode = "typed" /\ last.op = "evaluate"

\* the `expected` texts of the runtime TypeError raised by arithmetic, by
\* comparison, by fst / snd and by the condition of an if
CoveredTypeErrors ==
    {"Int + Int or String + String", "Int - Int", "Int * Int", "Int / Int",
     "Int < Int", "Int <= Int", "Int > Int", "Int >= Int", "Pair", "Bool"}

\* C11: the evaluation of a program that check_program accepted never ends
\* in the runtime TypeError of an arithmetic operation, a comparison, a pair
\* projection or the condition of an if.
C11_WellTypedNoRuntimeTypeError ==
    Evaluated =>
        ~(IsErr(last.v) /\ last.v.e = "TypeError" /\ last.v.expected \in CoveredTypeErrors)

----------------------------------------------------------------------------
(* Driver 6: the typing rules applied to operand types.  A TypeChecker     *)
(* whose environment binds f and a to two types drawn from the types of    *)
(* depth at most one is asked for the compatibility of the two types, for  *)
(* the type of the application f(a) and for the type of  f op a.           *)

GroundTypes == {TyInt, TyBool, TyString, TyUnit}

ComponentTypes == {TyInt, TyBool, TyUnknown}

RuleTypes ==
    GroundTypes \cup {TyUnknown}
        \cup {TyFunction(p, r) : p \in ComponentTypes, r \in ComponentTypes}
        \cup {TyList(e) : e \in ComponentTypes}
        \cup {TyPair(a, c) : a \in ComponentTypes, c \in ComponentTypes}
        \cup {TySum(l, r) : l \in ComponentTypes, r \in ComponentTypes}

OperandTypes == {TyInt, TyBool, TyString}

\* every variant of ast::BinaryOperator
BinaryOperators ==
    ArithmeticOps \cup EqualityOps \cup OrderOps \cup LogicalOps \cup {"Assign"}

RuleCase(t1, t2, t3, op) == [t1 |-> t1, t2 |-> t2, t3 |-> t3, op |-> op]

RuleCases ==
    {RuleCase(t1, t2, t3, "Equal") :
        t1 \in RuleTypes, t2 \in RuleTypes, t3 \in ComponentTypes}
    \cup {RuleCase(l, r, TyInt, op) :
        l \in OperandTypes, r \in OperandTypes, op \in BinaryOperators}

F == Identifier("f")
A == Identifier("a")

InitRules ==
    /\ mode = "rules"
    /\ ghost \in RuleCases
    /\ checker = Running(tenv_bind(tenv_bind(TEnvNew, "f", ghost.t1), "a", ghost.t2), <<>>)
    /\ interp = Idle
    /\ out = <<>>
    /\ last = Idle
    /\ steps = 0
    /\ repl = Idle

\* what check_expression returned
TypedAs(op, r) ==
    [op |-> op, ok |-> r.ok, ty |-> IF r.ok THEN r.ty ELSE TyError,
     err |-> IF r.ok THEN NoTypeError ELSE r.err]

\* types_compatible on the two types, on each with itself and with a third
\* type, and on compound types built from them
TypesCompatible ==
    /\ mode = "rules"
    /\ last = Idle
    /\ last' = [op |-> "types_compatible",
                r11 |-> types_compatible(ghost.t1, ghost.t1),
                r12 |-> types_compatible(ghost.t1, ghost.t2),
                r21 |-> types_compatible(ghost.t2, ghost.t1),
                r23 |-> types_compatible(ghost.t2, ghost.t3),
                r13 |-> types_compatible(ghost.t1, ghost.t3),
                list |-> types_compatible(TyList(ghost.t1), TyList(ghost.t2)),
                function |-> types_compatible(TyFunction(ghost.t1, ghost.t2),
                                              TyFunction(ghost.t2, ghost.t3)),
                pair |-> types_compatible(TyPair(ghost.t1, ghost.t2),
                                          TyPair(ghost.t3, ghost.t3)),
                sum |-> types_compatible(TySum(ghost.t1, ghost.t2),
                                         TySum(ghost.t2, ghost.t3))]
    /\ steps' = steps + 1
    /\ UNCHANGED <<mode, interp, out, ghost, checker, repl>>

\* check_expression on the application f(a)
CheckCall ==
    /\ mode = "rules"
    /\ last = Idle
    /\ \E r \in {check_expression(FunctionCall(F, A), checker.environment,
                                  checker.errors, MaxCallDepth)} :
          last' = TypedAs("call", r)
    /\ steps' = steps + 1
    /\ UNCHANGED <<mode, interp, out, ghost, checker, repl>>

\* check_expression on the binary operation  f op a
CheckBinaryOp ==
    /\ mode = "rules"
    /\ last = Idle
    /\ \E r \in {check_expression(BinaryOp(F, ghost.op, A), checker.environment,
                                  checker.errors, MaxCallDepth)} :
          last' = TypedAs("binary", r)
    /\ steps' = steps + 1
    /\ UNCHANGED <<mode, interp, out, ghost, checker, repl>>

NextRules == TypesCompatible \/ CheckCall \/ CheckBinaryOp

SpecRules == InitRules /\ [][NextRules]_vars

\* C12: the application f(a) is accepted only if the type of f is Unknown,
\* or is a function type whose parameter type the type of a is compatible
\* with; in every other case check_expression returns TypeMismatch.
C12_ApplicationNeedsCompatibleArgument ==
    (mode = "rules" /\ last.op = "call") =>
        \/ ghost.t1 = TyUnknown
        \/ (ghost.t1.ty = "Function" /\ types_compatible(ghost.t2, ghost.t1.param))
        \/ (~last.ok /\ last.err.e = "TypeMismatch")

\* ~ on the component types, written out
ComponentsCompatible(a, c) == a = TyUnknown \/ c = TyUnknown \/ a = c

\* C13: types_compatible is reflexive and symmetric, holds whenever a side
\* is Unknown, holds for two Function, List, Pair or Sum types exactly when
\* it holds for each pair of corresponding components, is false for two
\* distinct ground types, and is not transitive: Int ~ Unknown and
\* Unknown ~ Bool but not Int ~ Bool.
C13_CompatibilityRelation ==
    (mode = "rules" /\ last.op = "types_compatible") =>
        LET t1 == ghost.t1
            t2 == ghost.t2
            t3 == ghost.t3
        IN  /\ last.r11
            /\ last.r12 = last.r21
            /\ (t1 = TyUnknown \/ t2 = TyUnknown) => last.r12
            /\ last.list = last.r12
            /\ last.function = (last.r12 /\ last.r23)
            /\ last.pair = (last.r13 /\ last.r23)
            /\ last.sum = (last.r12 /\ last.r23)
            /\ (t1.ty = "Function" /\ t2.ty = "Function") =>
                  last.r12 = (/\ ComponentsCompatible(t1.param, t2.param)
                              /\ ComponentsCompatible(t1.result, t2.result))
            /\ (t1.ty = "List" /\ t2.ty = "List") =>
                  last.r12 = ComponentsCompatible(t1.element, t2.element)
            /\ (t1.ty = "Pair" /\ t2.ty = "Pair") =>
                  last.r12 = (/\ ComponentsCompatible(t1.first, t2.first)
                              /\ ComponentsCompatible(t1.second, t2.second))
            /\ (t1.ty = "Sum" /\ t2.ty = "Sum") =>
                  last.r12 = (/\ ComponentsCompatible(t1.left, t2.left)
                              /\ ComponentsCompatible(t1.right, t2.right))
            /\ (t1 \in GroundTypes /\ t2 \in GroundTypes /\ t1 # t2) => ~last.r12
            /\ (t1 = TyInt /\ t2 = TyUnknown /\ t3 = TyBool) =>
                  (last.r12 /\ last.r23 /\ ~last.r13)

\* Int ~ Unknown and Unknown ~ Bool were found to hold and Int ~ Bool not
C13_Witness ==
    /\ mode = "rules"
    /\ last.op = "types_compatible"
    /\ ghost.t1 = TyInt /\ ghost.t2 = TyUnknown /\ ghost.t3 = TyBool
    /\ last.r12 /\ last.r23 /\ ~last.r13

\* the operator table: the result type of  l op r, if the table has a row
OperatorTable(l, op, r) ==
    IF l = TyInt /\ r = TyInt /\ op \in ArithmeticOps THEN Some(TyInt)
    ELSE IF l = TyInt /\ r = TyInt /\ op \in EqualityOps \cup OrderOps THEN Some(TyBool)
    ELSE IF l = TyBool /\ r = TyBool /\ op \in EqualityOps \cup LogicalOps THEN Some(TyBool)
    ELSE IF l = TyString /\ r = TyString /\ op = "Add" THEN Some(TyString)
    ELSE IF l = TyString /\ r = TyString /\ op \in EqualityOps THEN Some(TyBool)
    ELSE None

\* the table with the row the checker also has: `=` between two operands of
\* the same type gives that type
OperatorTableWithAssign(l, op, r) ==
    IF op = "Assign" /\ l = r THEN Some(r) ELSE OperatorTable(l, op, r)

\* the checker's answer for  f op a  is the row's type, or
\* InvalidBinaryOperation when there is no row
AnswersAs(row) ==
    IF row.some THEN last.ok /\ last.ty = row.v
    ELSE ~last.ok /\ last.err = InvalidBinaryOperation(ghost.t1, ghost.op, ghost.t2)

OnOperandTypes ==
    /\ mode = "rules"
    /\ last.op = "binary"
    /\ ghost.t1 \in OperandTypes
    /\ ghost.t2 \in OperandTypes

\* C15 as claimed: for operand types among Int, Bool and String the checker
\* accepts a binary operation exactly when the operator table has a row for
\* it, with the row's result type, and rejects every other one with
\* InvalidBinaryOperation.
C15_OperatorTableExact ==
    OnOperandTypes => AnswersAs(OperatorTable(ghost.t1, ghost.op, ghost.t2))

\* C15 amended: the same for the table extended by the assignment row.
C15_OperatorTableWithAssign ==
    OnOperandTypes => AnswersAs(OperatorTableWithAssign(ghost.t1, ghost.op, ghost.t2))

\* String + String was accepted as String
C15_Witness ==
    /\ OnOperandTypes
    /\ ghost.t1 = TyString /\ ghost.t2 = TyString /\ ghost.op = "Add"
    /\ last.ok /\ last.ty = TyString

\* the quotient of l by r # 0 truncated toward zero: the integer nearest to
\* zero-ward of the exact quotient
TruncatedQuotient(l, r) ==
    CHOOSE q \in (-Abs(l))..Abs(l) :
        /\ Abs(q) * Abs(r) <= Abs(l)
        /\ Abs(l) < (Abs(q) + 1) * Abs(r)
        /\ (q > 0 => (l > 0) = (r > 0))
        /\ (q < 0 => (l > 0) # (r > 0))

\* the two Int operands of a division program and what it left behind
DivisionYields(l, r) ==
    /\ out = <<IntV(1), IntV(2)>>
    /\ IF r = 0
       THEN last.v = DivisionByZero /\ ~lookup(interp, "q").some
       ELSE last.ok /\ lookup(interp, "q") = Some(IntV(TruncatedQuotient(l, r)))

\* C16: for all Int operands l and r, l / r evaluates both operands (their
\* output is written) and then returns DivisionByZero when r = 0 and
\* otherwise the quotient truncated toward zero.
C16_DivisionTotal ==
    (Evaluated /\ repl.program \in DivPrograms) =>
        DivisionYields(repl.program[1].value.left.expression.value,
                       repl.program[1].value.right.expression.value)

\* what a cons program leaves in the environment for the head value v and
\* the list value xs
ConsYields(v, xs) ==
    /\ last.ok
    /\ lookup(interp, "ys") = Some(ListV(<<v>> \o xs.xs))
    /\ lookup(interp, "h") = Some(v)
    /\ lookup(interp, "t") = Some(xs)
    /\ lookup(interp, "xs") = Some(xs)

\* C17: cons(v, xs) evaluates to a new list with v first followed by the
\* elements of xs in order, head(cons(v, xs)) = v, tail(cons(v, xs)) = xs,
\* and the variable bound to xs still holds the original list.
C17_ConsHeadTail ==
    Evaluated =>
        \A h \in ConsHeads : \A l \in ConsLists :
            repl.program = ConsProgram(h.expr, l.expr) => ConsYields(h.value, l.value)

\* cons(7, [2, 1, 2]) was evaluated: ys = [7, 2, 1, 2] and xs = [2, 1, 2]
C17_Witness ==
    /\ Evaluated
    /\ repl.program = ConsProgram(Number(7), List(<<Number(2), Number(1), Number(2)>>))
    /\ lookup(interp, "ys") = Some(ListV(<<IntV(7), IntV(2), IntV(1), IntV(2)>>))
    /\ lookup(interp, "xs") = Some(ListV(<<IntV(2), IntV(1), IntV(2)>>))

\* C18: head or tail of the empty list passes type checking, and its
\* evaluation yields a RuntimeError and leaves the environment as the
\* statements before it made it (x = 1, and the empty list e where the
\* program declares it).
C18_EmptyListProjection ==
    (mode = "typed" /\ repl.program \in EmptyListPrograms) =>
        /\ last.op = "check" => last.ok
        /\ last.op = "evaluate" =>
              /\ IsErr(last.v) /\ last.v.e = "RuntimeError"
              /\ interp = interpret_program(SubSeq(repl.program, 1, Len(repl.program) - 1),
                                             EnvNew, <<>>, MaxCallDepth).env
              /\ lookup(interp, "x") = Some(IntV(1))
              /\ ~lookup(interp, "h").some
              /\ scope_count(interp) = 1

\* `let x = 1; let h = head([]);` was type-checked and its evaluation failed
C18_Witness ==
    /\ Evaluated
    /\ repl.program = <<Let("x", Number(1)), Let("h", HeadProjection(List(<<>>)))>>
    /\ last.v = RuntimeError("Cannot get head of empty list")
    /\ lookup(interp, "x") = Some(IntV(1))

\* the list a, a+1, ..., b-1
Consecutive(a, b) == [i \in 1..(IF b > a THEN b - a ELSE 0) |-> IntV(a + i - 1)]

\* C19: range(a, b) evaluates to the list a, a+1, ..., b-1, of length
\* max(0, b - a), which is the empty list when a >= b.
C19_RangeList ==
    Evaluated =>
        \A a \in RangeOperands : \A b \in RangeOperands :
            repl.program = RangeProgram(a, b) =>
                /\ last.ok
                /\ lookup(interp, "r") = Some(ListV(Consecutive(a, b)))
                /\ Len(lookup(interp, "r").v.xs) = (IF b - a > 0 THEN b - a ELSE 0)
                /\ (a >= b => lookup(interp, "r") = Some(ListV(<<>>)))

\* range(-1, 2) was evaluated to [-1, 0, 1]
C19_Witness ==
    /\ Evaluated
    /\ repl.program = RangeProgram(-1, 2)
    /\ lookup(interp, "r") = Some(ListV(<<IntV(-1), IntV(0), IntV(1)>>))

\* the elements of ns before its first zero (all of ns when it has none)
RECURSIVE BeforeFirstZero(_)
BeforeFirstZero(ns) ==
    IF ns = <<>> \/ Head(ns) = 0 THEN <<>>
    ELSE <<Head(ns)>> \o BeforeFirstZero(Tail(ns))

HasZero(ns) == \E i \in 1..Len(ns) : ns[i] = 0

\* what the for program over the numbers ns leaves behind: the iterable's
\* output once, then one line of the body per element visited, in order
ForYields(ns) ==
    LET visited == BeforeFirstZero(ns) IN
    /\ out = <<IntV(100)>> \o [i \in 1..Len(visited) |-> IntV(10 \div visited[i])]
    /\ IF HasZero(ns)
       THEN last.v = DivisionByZero /\ ~lookup(interp, "u").some
       ELSE last.ok /\ lookup(interp, "u") = Some(UnitV)
    /\ ~lookup(interp, "x").some

\* C20: a for loop evaluates the iterable once, then the body exactly once
\* per element in list order with the variable bound to that element; it
\* stops at the first iteration whose body raises an error, and otherwise
\* yields Unit whatever the body's values were.
C20_ForLoop ==
    Evaluated =>
        \A ns \in ForLists : repl.program = ForProgram(ns) => ForYields(ns)

\* the loop over [5, 2, 0] ran its body for 5 and for 2 and stopped at 0
C20_Witness ==
    /\ Evaluated
    /\ repl.program = ForProgram(<<5, 2, 0>>)
    /\ out = <<IntV(100), IntV(2), IntV(5)>>
    /\ last.v = DivisionByZero
\* the statements of a step program that raise a runtime error
Fails(kind) == kind \in {"div0", "head"}

\* index of the first failing statement, Len + 1 when there is none
RECURSIVE FirstFailure(_, _)
FirstFailure(kinds, i) ==
    IF i > Len(kinds) \/ Fails(kinds[i]) THEN i ELSE FirstFailure(kinds, i + 1)

StepYields(kinds) ==
    LET k == FirstFailure(kinds, 1)
        ran == IF k > Len(kinds) THEN Len(kinds) ELSE k
        bound == {i \in 1..(k - 1) : kinds[i] = "let"}
        exports == get_all_bindings(interp)
    IN  /\ IsErr(last.v) = (k <= Len(kinds))
        /\ k <= Len(kinds) /\ kinds[k] = "div0" => last.v = DivisionByZero
        /\ k <= Len(kinds) /\ kinds[k] = "head" =>
                last.v = RuntimeError("Cannot get head of empty list")
        /\ out = [i \in 1..ran |-> IntV(i)]
        /\ DOMAIN exports = {StepName(i) : i \in bound}
        /\ \A i \in bound : exports[StepName(i)] = IntV(i)
        /\ scope_count(interp) = 1

\* C21: interpret_program runs the statements in textual order and stops at
\* the first one that raises a runtime error: the output holds the prints of
\* the statements up to and including that one and of no later one, the
\* environment holds exactly the bindings of the statements before it, and the
\* error returned is that statement's error.
C21_FirstRuntimeErrorStops ==
    Evaluated =>
        \A kinds \in StepKindLists :
            repl.program = StepProgram(kinds) => StepYields(kinds)

\* a program whose second statement fails after a binding, with a third
\* statement that is never run
C21_Witness ==
    /\ Evaluated
    /\ repl.program = StepProgram(<<"let", "div0", "let">>)
    /\ IsErr(last.v)
    /\ lookup(interp, StepName(1)) = Some(IntV(1))
    /\ ~lookup(interp, StepName(3)).some
    /\ out = <<IntV(1), IntV(2)>>

----------------------------------------------------------------------------
(* Driver 7: an Interpreter used directly, as the unit tests of            *)
(* interpreter/tests.rs use it, on import statements evaluated one after   *)
(* the other.                                                              *)

ImportPaths == (DOMAIN FileSystem) \cup {"absent.cor"}

ImportAliases == {None, Some("m")}

ImportStatements == {Import(path, alias) : path \in ImportPaths, alias \in ImportAliases}

\* the importer before its first import: nothing bound; x and m bound; x
\* bound in an inner scope
ImporterEnvs ==
    {EnvNew,
     bind(bind(EnvNew, "x", IntV(1)), "m", IntV(0)),
     bind(push_scope(EnvNew), "x", IntV(1))}

InitImport ==
    /\ mode = "import"
    /\ interp \in ImporterEnvs
    /\ out = <<>>
    /\ last = Idle
    /\ steps = 0
    /\ ghost = Idle
    /\ checker = Idle
    /\ repl = Idle

\* Interpreter::interpret_statement on a Statement::Import
InterpretImport ==
    /\ mode = "import"
    /\ steps < MaxUnits
    /\ \E statement \in ImportStatements :
          \E r \in {interpret_statement(statement, interp, out, MaxCallDepth)} :
              /\ interp' = r.env
              /\ out' = r.out
              /\ last' = [op |-> "import", statement |-> statement, v |-> r.v,
                          before |-> interp, printed |-> out]
    /\ steps' = steps + 1
    /\ UNCHANGED <<mode, ghost, checker, repl>>

NextImport == InterpretImport

SpecImport == InitImport /\ [][NextImport]_vars

\* the final top-level bindings of the files that run to their end
LibExports == ("a" :> IntV(1)) @@ ("b" :> IntV(2))

ModuleExports ==
    "lib.cor" :> LibExports
    @@ "noisy.cor" :> ("n" :> IntV(7))
    @@ "shadow.cor" :> ("x" :> BoolV(TRUE))
    @@ "scoped.cor" :> ("a" :> IntV(5))
    @@ "outer.cor" :> (("inner" :> ModuleV("inner", LibExports)) @@ ("c" :> IntV(3)))

\* the files that cannot be loaded: unreadable, not tokenizable, not
\* parsable, failing at run time
FailingPaths == {"absent.cor", "garbled.cor", "broken.cor", "peek.cor", "crash.cor"}

\* what running the file prints
ModulePrints ==
    [path \in ImportPaths |->
        CASE path = "noisy.cor" -> <<IntV(7)>>
          [] path = "crash.cor" -> <<IntV(9)>>
          [] OTHER -> <<>>]

ImportName(statement) ==
    IF statement.alias.some THEN statement.alias.v ELSE statement.path

AfterImport == mode = "import" /\ last.op = "import"

\* C22: an import that returns either binds the import name (the alias, or
\* the raw path without one) in the importer's current scope to a Module
\* whose exports are exactly the final top-level bindings of the imported
\* file run on its own, and changes nothing else; or, when the file cannot
\* be read, tokenized, parsed or run to its end, returns a RuntimeError and
\* leaves the importer's environment as it was.  The imported file sees no
\* binding of the importer: peek.cor, which reads x, fails under every
\* importer.  (An import that does not return, see C24, is not covered.)
C22_ImportBindsFreshModule ==
    AfterImport /\ ~IsCrash(last.v) =>
        LET statement == last.statement
            name == ImportName(statement)
        IN  /\ out = last.printed \o ModulePrints[statement.path]
            /\ statement.path \in DOMAIN ModuleExports =>
                  /\ last.v = UnitV
                  /\ interp = bind(last.before, name,
                                   ModuleV(name, ModuleExports[statement.path]))
            /\ statement.path \in FailingPaths =>
                  /\ IsErr(last.v) /\ last.v.e = "RuntimeError"
                  /\ interp = last.before
            /\ statement.path \in (DOMAIN ModuleExports) \cup FailingPaths

\* an importer that binds x imports a file that binds x itself, and then
\* fails to import a file that reads x
C22_Witness ==
    /\ AfterImport
    /\ last.statement = Import("peek.cor", None)
    /\ lookup(last.before, "x") = Some(IntV(1))
    /\ lookup(last.before, "m") = Some(ModuleV("m", "x" :> BoolV(TRUE)))
    /\ IsErr(last.v)
    /\ interp = last.before

ProgramChecked == mode = "typed" /\ last.op = "check"

\* the files that pass the type checker
CheckablePaths == {"lib.cor", "noisy.cor", "crash.cor"}

\* what the imports from the i-th on print, up to and including the first
\* one whose file fails at run time
RECURSIVE ImportsPrint(_, _)
ImportsPrint(paths, i) ==
    IF i > Len(paths) THEN <<>>
    ELSE IF paths[i] = "crash.cor" THEN ModulePrints[paths[i]]
    ELSE ModulePrints[paths[i]] \o ImportsPrint(paths, i + 1)

ImportsYield(paths) ==
    /\ ProgramChecked =>
          last.ok = (\A i \in 1..Len(paths) : paths[i] \in CheckablePaths)
    /\ Evaluated =>
          /\ out = ImportsPrint(paths, 1)
          /\ IsErr(last.v) = (\E i \in 1..Len(paths) : paths[i] = "crash.cor")
          /\ ~IsErr(last.v) =>
                \A i \in 1..Len(paths) :
                    lookup(interp, paths[i]) =
                        Some(ModuleV(paths[i], ModuleExports[paths[i]]))

CyclicPaths == {"self.cor", "ping.cor", "pong.cor"}

ImportsCycle(program) ==
    /\ program \in ImportPrograms
    /\ program[1].path \in CyclicPaths

----------------------------------------------------------------------------
(* Driver 8: a Parser built on a token sequence and asked for one          *)
(* expression or one type expression.                                      *)

MaxAtoms == 3        \* atoms of one parsed expression or type

OperatorTokens ==
    {"Plus", "Minus", "Multiply", "Divide", "Equal", "NotEqual", "LessThan",
     "LessThanEqual", "GreaterThan", "GreaterThanEqual", "LogicalAnd", "LogicalOr"}

\* 1 op 2 op 3 ... Eof: the i-th atom is the number i
OperatorChain(ops) ==
    [i \in 1..(2 * Len(ops) + 2) |->
        IF i = 2 * Len(ops) + 2 THEN Tok("Eof")
        ELSE IF i % 2 = 1 THEN TokNumber((i + 1) \div 2)
        ELSE Tok(ops[i \div 2])]

OperatorChains ==
    {OperatorChain(ops) : ops \in UNION {[1..n -> OperatorTokens] : n \in 0..(MaxAtoms - 1)}}

\* the names of the atoms of a type, by position
TypeAtoms == <<"A", "B", "C", "D", "E">>

\* the function types whose atoms are, left to right, the lo-th to hi-th name
RECURSIVE ArrowTypes(_, _)
ArrowTypes(lo, hi) ==
    IF lo = hi THEN {TNamed(TypeAtoms[lo])}
    ELSE UNION {{TFunction(param, result) :
                    param \in ArrowTypes(lo, k), result \in ArrowTypes(k + 1, hi)} :
                k \in lo..(hi - 1)}

\* a type written with `->` grouping to the right: parentheses only around
\* a parameter that is itself a function type
RECURSIVE Written(_)
Written(type_expr) ==
    IF type_expr.te = "Function"
    THEN (IF type_expr.param.te = "Function"
          THEN <<Tok("LeftParen")>> \o Written(type_expr.param) \o <<Tok("RightParen")>>
          ELSE Written(type_expr.param))
         \o <<Tok("Arrow")>> \o Written(type_expr.result)
    ELSE <<TokIdentifier(type_expr.name)>>

WrittenTypes == UNION {ArrowTypes(1, n) : n \in 1..MaxAtoms}

ParserNew(tokens, what) == [tokens |-> tokens, what |-> what, current |-> 0]

\* ghost holds the type a type input was written from
InitParse ==
    /\ mode = "parse"
    /\ \/ /\ repl \in {ParserNew(tokens, "expression") : tokens \in OperatorChains}
          /\ ghost = Idle
       \/ \E type_expr \in WrittenTypes :
             /\ repl = ParserNew(Written(type_expr) \o <<Tok("Eof")>>, "type")
             /\ ghost = type_expr
    /\ last = Idle
    /\ interp = Idle
    /\ out = <<>>
    /\ steps = 0
    /\ checker = Idle

\* Parser::parse_expression
ParseExpression ==
    /\ mode = "parse"
    /\ repl.what = "expression"
    /\ last = Idle
    /\ \E r \in {parse_expression(repl.tokens, repl.current)} :
          /\ last' = [op |-> "parse_expression", result |-> r]
          /\ repl' = IF r.ok THEN [repl EXCEPT !.current = r.current] ELSE repl
    /\ steps' = steps + 1
    /\ UNCHANGED <<mode, interp, out, ghost, checker>>

\* Parser::parse_type_expression
ParseTypeExpression ==
    /\ mode = "parse"
    /\ repl.what = "type"
    /\ last = Idle
    /\ \E r \in {parse_type_expression(repl.tokens, repl.current)} :
          /\ last' = [op |-> "parse_type_expression", result |-> r]
          /\ repl' = IF r.ok THEN [repl EXCEPT !.current = r.current] ELSE repl
    /\ steps' = steps + 1
    /\ UNCHANGED <<mode, interp, out, ghost, checker>>

NextParse == ParseExpression \/ ParseTypeExpression

SpecParse == InitParse /\ [][NextParse]_vars

\* the levels of the operator tokens
Level(token) ==
    CASE token = "LogicalOr" -> 2
      [] token = "LogicalAnd" -> 3
      [] token \in {"Equal", "NotEqual", "LessThan", "LessThanEqual",
                    "GreaterThan", "GreaterThanEqual"} -> 5
      [] token \in {"Plus", "Minus"} -> 10
      [] token \in {"Multiply", "Divide"} -> 20

\* the token a BinaryOperator is written with
TokenOf(operator) ==
    CASE operator = "Add" -> "Plus"
      [] operator = "Subtract" -> "Minus"
      [] OTHER -> operator

\* the tokens of an expression tree of numbers and operators, left to right
RECURSIVE Yield(_)
Yield(node) ==
    IF node.t = "BinaryOp"
    THEN Yield(node.left) \o <<Tok(TokenOf(node.operator))>> \o Yield(node.right)
    ELSE <<TokNumber(node.value)>>

\* every operator of the tree has, on its left, only operators that bind at
\* least as tightly and, on its right, only operators that bind tighter
RECURSIVE Grouped(_)
Grouped(node) ==
    node.t = "BinaryOp" =>
        /\ Grouped(node.left)
        /\ Grouped(node.right)
        /\ node.left.t = "BinaryOp" =>
              Level(TokenOf(node.left.operator)) >= Level(TokenOf(node.operator))
        /\ node.right.t = "BinaryOp" =>
              Level(TokenOf(node.right.operator)) > Level(TokenOf(node.operator))

ExpressionParsed == mode = "parse" /\ last.op = "parse_expression"

\* C25: a chain of atoms separated by binary operators parses, up to the end
\* of the input, into the one tree over these tokens in which operators of a
\* higher level bind tighter and operators of the same level group to the
\* left.
C25_PrecedenceAndLeftAssociativity ==
    ExpressionParsed =>
        /\ last.result.ok
        /\ peek(repl.tokens, last.result.current).tok = "Eof"
        /\ Yield(last.result.node) \o <<Tok("Eof")>> = repl.tokens
        /\ Grouped(last.result.node)

\* 1 - 2 - 3 parsed as (1 - 2) - 3
C25_Witness ==
    /\ ExpressionParsed
    /\ repl.tokens = OperatorChain(<<"Minus", "Minus">>)
    /\ last.result.node =
          BinaryOp(BinaryOp(Number(1), "Subtract", Number(2)), "Subtract", Number(3))

TypeParsed == mode = "parse" /\ last.op = "parse_type_expression"

\* C26: a type written with `->` grouping to the right (A -> B -> C for the
\* type with parameter A and result B -> C, parentheses only around a
\* parameter that is a function type, as in (A -> B) -> C) parses back into
\* that type.
C26_ArrowRightAssociative ==
    TypeParsed =>
        /\ last.result.ok
        /\ last.result.node = ghost

\* the line `let y = x;`
UseOfX == <<Word("let"), Word("y"), Symbol("="), Word("x"), Symbol(";")>>

\* C27: in a REPL session whose interpreter holds x from an earlier line,
\* the line `let y = x;` passes the type check and, once evaluated, has bound
\* y to the value of x.
C27_EarlierBindingUsable ==
    (mode = "repl" /\ ~repl.batch /\ repl.content = UseOfX
        /\ lookup(repl.before, "x").some) =>
        /\ last.op = "check" => last.ok
        /\ last.op = "evaluate" => lookup(interp, "y") = lookup(repl.before, "x")

\* C28: once check_statement has returned from a function declaration, with
\* Ok or with an error, the checker's environment has as many scopes as
\* before the declaration and the parameter is not visible in it.
C28_FunctionDeclarationKeepsDepth ==
    (AfterCheckStatement /\ LastStmt.s = "FunctionDeclaration") =>
        /\ Len(checker.environment) = Len(last.before)
        /\ tenv_lookup(checker.environment, LastStmt.param) =
              tenv_lookup(last.before, LastStmt.param)

LogicYields(l, op, r) ==
    /\ out = IF l = "fail" THEN <<IntV(1)>> ELSE <<IntV(1), IntV(2)>>
    /\ IsErr(last.v) = (l = "fail" \/ r = "fail")
    /\ IsErr(last.v) => last.v = DivisionByZero /\ ~lookup(interp, "r").some
    /\ ~IsErr(last.v) =>
          lookup(interp, "r") =
              Some(BoolV(IF op = "LogicalAnd" THEN l = "true" /\ r = "true"
                         ELSE l = "true" \/ r = "true"))

\* C29: && and || evaluate the left operand and then, unless it failed, the
\* right operand, before the result is computed: the right operand's print
\* and its runtime error happen also when the left operand alone determines
\* the result (false && ..., true || ...).
C29_NoShortCircuit ==
    Evaluated =>
        \A l \in OperandKinds, op \in {"LogicalAnd", "LogicalOr"}, r \in OperandKinds :
            repl.program = LogicProgram(l, op, r) => LogicYields(l, op, r)

\* false && <failing operand> has printed both operands and failed
C29_Witness ==
    /\ Evaluated
    /\ repl.program = LogicProgram("false", "LogicalAnd", "fail")
    /\ out = <<IntV(1), IntV(2)>>
    /\ last.v = DivisionByZero

\* the number of scopes the closure of the last with_new_scope call returned with
ClosureLeft == Len(run_closure(push_scope(last.entered), last.f, 1))

AtLeastOneScope ==
    /\ Len(interp) >= 1
    /\ (last.op = "pop_scope" /\ Len(last.entered) = 1) => interp = last.entered

====
